---- MODULE Spec2Model ----
(***************************************************************************)
(* CS2-Widget: the local proxy's process orchestrator (proxy-server.mjs,   *)
(* listed in docs/leetify-api.md) and the widget's refresh loops           *)
(* (script.js).                                                            *)
(*                                                                         *)
(* The specifications of this module:                                      *)
(*   Spec       - one /win-probability request of the proxy at a time: the *)
(*                resolver invocation, then the computation invocation,    *)
(*                each a child process watched by spawnProcess.            *)
(*   FairSpec   - Spec under the scheduling of the event loop.             *)
(*   WidgetSpec - the widget: loadAllData, the live tick, the rendering of *)
(*                the live badge and its delta indicator.                  *)
(*   ParseSpec  - parseMarkedPayload applied to any bounded stdout.        *)
(*   ExchangeSpec - one closed child, the proxy's response to it, and what *)
(*                the widget's fetch makes of that response.               *)
(*   PairSpec   - two spawnProcess calls whose events interleave.          *)
(*   AbortSpec  - Spec with callers that abort their request.              *)
(*   TimingSpec - the time budgets of one invocation against the deadline  *)
(*                of the widget's fetch.                                   *)
(*   NetSpec    - the requests the widget sends and the branch of the      *)
(*                proxy's handler that takes each.                         *)
(*   ForwardSpec - the /proxy route: the upstream request, its URL and its *)
(*                auth.                                                    *)
(*   ShownSpec  - the probability of a payload and the value shown.        *)
(*   ScoringSpec - the statistical model for one player: the aggregation   *)
(*                with its fallback, the normalizer, the composite score.  *)
(*   RefreshSpec - loadAllData and the refresh tick under the scheduling   *)
(*                of the browser.                                          *)
(*   LiveSpec   - the live tracker under the scheduling of the browser.    *)
(*   TimersSpec - the two interval timers: their starts and stops.         *)
(*                                                                         *)
(* Abstractions.  The captured stdout is the sequence of its lines, each   *)
(* line given by what it starts with once trimmed (nothing, free text, a   *)
(* marker) and by the text after the marker.  A text after a marker is a   *)
(* JSON object or does not parse.  Percentages are fixed-point integers,   *)
(* one unit = 0.01 percentage point; probabilities one unit = 0.0001.      *)
(***************************************************************************)
EXTENDS Integers, Sequences, FiniteSets, TLC

VARIABLES
    \* ---- proxy ----
    phase,            \* position of the /win-probability handler
    req,              \* the request being served
    child,            \* the closure of the current spawnProcess call
    resolvedMatch,    \* handler local: what resolveActiveMatchId returned
    effectiveMatchId, \* handler local: the id passed on as --match-id
    response,         \* what respondJson wrote
    spawns,           \* history: the spawnProcess calls of the request, by script
    aborted,          \* environment: the caller closed the request before its response
    \* ---- widget ----
    CONFIG,           \* the configuration after applyRuntimeOverridesFromQuery
    isRefreshing,
    isLiveWinprobRefreshing,
    RUNTIME,          \* resolvedMatchId, resolvedSteamId64, bootstrapAt, lastLiveWinprobPct
    refreshTimer,
    liveWinprobTimer,
    DOM,              \* the live badge, the winprob badge, the winprob error
    load,             \* position of the loadAllData call in progress
    liveReqs,         \* live-win-probability requests in flight
    activeMatch,      \* environment: the player's match now
    sampleMatch,      \* history: the match of the retained previous sample
    inited,           \* initWidget ran
    liveSkipped,      \* history: a trigger was skipped while the live request is in flight
    \* ---- parseMarkedPayload on its own ----
    parseRun,         \* a captured stdout, a marker, and what the function returned
    \* ---- one answer of the proxy as the widget takes it ----
    exchange,         \* a closed child, the proxy's response, the fetch's outcome
    \* ---- two spawnProcess calls in progress at once ----
    calls,            \* the closures of the two calls, their events interleaved
    alone,            \* the closure of each call as it is when the call runs alone
    \* ---- the clocks of one win-probability request ----
    timing,           \* the time, the proxy's position and timer, the widget's fetch
    \* ---- the requests the widget's page sends ----
    net,              \* the configuration, the requests sent so far, the avatar known
    \* ---- the /proxy route ----
    fwd,              \* the server-side keys, the request, the upstream request, the response
    \* ---- the winprob badge for one payload ----
    shown,            \* the payload's probability and the value the badge shows
    \* ---- the scoring of one player ----
    scoring,          \* the upstream data, the metric record, the weights, the score
    \* ---- the interval timers of the widget ----
    timers

proxyVars == <<phase, req, child, resolvedMatch, effectiveMatchId, response, spawns, aborted>>
widgetVars == <<CONFIG, isRefreshing, isLiveWinprobRefreshing, RUNTIME, refreshTimer,
                liveWinprobTimer, DOM, load, liveReqs, activeMatch, sampleMatch, inited, liveSkipped>>
auxVars == <<timing, net, fwd, shown, scoring, timers>>
parseVars == <<parseRun, exchange, calls, alone, auxVars>>
baseVars == <<proxyVars, widgetVars, parseRun, exchange, calls, alone>>
vars == <<proxyVars, widgetVars, parseVars>>

(***************************************************************************)
(* Bounds.                                                                 *)
(***************************************************************************)
MaxLines == 2
MaxErr == 1
MaxInFlight == 2
MaxParseLines == 5
MaxBodyLines == 2
MaxPairLines == 1
TimeStep == 5000
MaxRequests == 2
MaxProbSteps == 100
MaxTimers == 3

(***************************************************************************)
(* Proxy: constants.                                                       *)
(***************************************************************************)
WINPROB_MARKER == "__WINPROB_JSON__"
MATCH_RESOLVE_MARKER == "__MATCHID_JSON__"

MatchIds == {"m1", "m2"}

\* JSON values: null, or an object with the fields the proxy reads.
Null == [t |-> "null", ok |-> FALSE, match_id |-> "", error |-> ""]
OkPayload(m) == [t |-> "obj", ok |-> TRUE, match_id |-> m, error |-> ""]
FailPayload(e) == [t |-> "obj", ok |-> FALSE, match_id |-> "", error |-> e]

\* The texts a child writes after a marker.
JsonTexts == {"{ok,m1}", "{ok,m2}", "{fail,err}", "{fail}", "{bad"}

\* JSON.parse: the parsed value, or threw.
JSONparse(raw) ==
    CASE raw = "{ok,m1}"    -> [threw |-> FALSE, value |-> OkPayload("m1")]
      [] raw = "{ok,m2}"    -> [threw |-> FALSE, value |-> OkPayload("m2")]
      [] raw = "{fail,err}" -> [threw |-> FALSE, value |-> FailPayload("err")]
      [] raw = "{fail}"     -> [threw |-> FALSE, value |-> FailPayload("")]
      [] raw = "{fail,nam}" -> [threw |-> FALSE, value |-> FailPayload("No ongoing match")]
      [] OTHER              -> [threw |-> TRUE, value |-> Null]

\* A line of stdout: head is what the trimmed line starts with ("" when the
\* line trims to nothing), json the text after the marker.
BlankLine == [head |-> "", json |-> ""]
LogLine == [head |-> "log", json |-> ""]
MarkerLine(marker, raw) == [head |-> marker, json |-> raw]

\* What a child invoked for `marker` writes: free text and lines of its marker.
StdoutLines(marker) == {LogLine} \cup {MarkerLine(marker, raw) : raw \in JsonTexts}

\* A chunk of stderr.
ErrLine == [head |-> "err", json |-> ""]

\* The exit codes the 'close' event carries; NullCode stands for null, the code
\* of a child that a signal ended.
NullCode == -1
ExitCodes == {NullCode, 0, 1, 2}

\* The detail attached to a failure: captured text, a payload, or nothing.
NoDetail == [src |-> "none", text |-> <<>>, payload |-> Null]
TextDetail(src, text) == [src |-> src, text |-> text, payload |-> Null]
PayloadDetail(p) == [src |-> "payload", text |-> <<>>, payload |-> p]

\* Both streams attached (a variant the properties must tell from
\* CapturedOutput).
CapturedOutputBoth(stderr, stdout) == TextDetail("both", stderr \o stdout)

\* stderr || stdout
CapturedOutput(stderr, stdout) ==
    IF stderr # <<>> THEN TextDetail("stderr", stderr) ELSE TextDetail("stdout", stdout)

(***************************************************************************)
(* Proxy: parseMarkedPayload.                                              *)
(***************************************************************************)
\* split(/\r?\n/g).map(trim).filter(Boolean): the lines that do not trim to "".
SplitLines(stdout) == SelectSeq(stdout, LAMBDA l : l.head # "")

\* The loop going on to an earlier marker line when one does not parse (a
\* variant the properties must tell from ScanFromEnd).
RECURSIVE ScanFromEndSkipping(_, _, _)
ScanFromEndSkipping(lines, i, marker) ==
    IF i < 1 THEN Null
    ELSE IF lines[i].head # marker THEN ScanFromEndSkipping(lines, i - 1, marker)
    ELSE LET parsed == JSONparse(lines[i].json)
         IN  IF parsed.threw THEN ScanFromEndSkipping(lines, i - 1, marker)
             ELSE parsed.value

\* The loop of parseMarkedPayload, from index i down to 1.
RECURSIVE ScanFromEnd(_, _, _)
ScanFromEnd(lines, i, marker) ==
    IF i < 1 THEN Null
    ELSE IF lines[i].head # marker THEN ScanFromEnd(lines, i - 1, marker)
    ELSE LET parsed == JSONparse(lines[i].json)
         IN  IF parsed.threw THEN Null ELSE parsed.value

\* The same loop run from the first line on (a variant the properties must tell
\* from parseMarkedPayload).
RECURSIVE ScanFromStart(_, _, _)
ScanFromStart(lines, i, marker) ==
    IF i > Len(lines) THEN Null
    ELSE IF lines[i].head # marker THEN ScanFromStart(lines, i + 1, marker)
    ELSE LET parsed == JSONparse(lines[i].json)
         IN  IF parsed.threw THEN Null ELSE parsed.value

parseMarkedPayloadFirst(stdout, marker) ==
    ScanFromStart(SplitLines(stdout), 1, marker)

parseMarkedPayload(stdout, marker) ==
    LET lines == SplitLines(stdout)
    IN  ScanFromEnd(lines, Len(lines), marker)

(***************************************************************************)
(* Proxy: what runWinProbability and resolveActiveMatchId make of the      *)
(* value spawnProcess resolved with, r = {code, stdout, stderr, timedOut}. *)
(***************************************************************************)
\* An error thrown: its statusCode, its message (`error` the text, `exit` the
\* exit code the text quotes, 0 when it quotes none) and its detail.
Thrown(statusCode, error, exit, detail) ==
    [threw |-> TRUE, statusCode |-> statusCode, error |-> error, exit |-> exit,
     detail |-> detail, value |-> Null]
Returned(value) ==
    [threw |-> FALSE, statusCode |-> 0, error |-> "", exit |-> 0,
     detail |-> NoDetail, value |-> value]

\* Variants of runWinProbability the properties must tell from it: the payload
\* looked at before timedOut; ok === false not looked at; the exit code not
\* looked at; a child that wrote no payload taken to have failed.
runWinProbabilityPayloadFirst(r) ==
    LET payload == parseMarkedPayload(r.stdout, WINPROB_MARKER)
    IN  IF payload # Null /\ payload.ok # FALSE THEN Returned(payload)
        ELSE IF r.timedOut
        THEN Thrown(504, "Timeout win probability", 0, CapturedOutput(r.stderr, r.stdout))
        ELSE IF payload # Null
        THEN Thrown(400, IF payload.error # "" THEN payload.error
                         ELSE "Calcul win probability en erreur.", 0, PayloadDetail(payload))
        ELSE IF r.code # 0
        THEN Thrown(502, "Le script win probability a echoue (exit)", r.code,
                    CapturedOutput(r.stderr, r.stdout))
        ELSE Thrown(502, "Reponse JSON win probability introuvable dans stdout.",
                    0, TextDetail("stdout", r.stdout))

runWinProbabilityAnyPayload(r) ==
    IF r.timedOut
    THEN Thrown(504, "Timeout win probability", 0, CapturedOutput(r.stderr, r.stdout))
    ELSE LET payload == parseMarkedPayload(r.stdout, WINPROB_MARKER)
         IN  IF payload # Null THEN Returned(payload)
             ELSE IF r.code # 0
             THEN Thrown(502, "Le script win probability a echoue (exit)", r.code,
                         CapturedOutput(r.stderr, r.stdout))
             ELSE Thrown(502, "Reponse JSON win probability introuvable dans stdout.",
                         0, TextDetail("stdout", r.stdout))

runWinProbabilityAnyExit(r) ==
    IF r.timedOut
    THEN Thrown(504, "Timeout win probability", 0, CapturedOutput(r.stderr, r.stdout))
    ELSE LET payload == parseMarkedPayload(r.stdout, WINPROB_MARKER)
         IN  IF payload # Null
             THEN IF payload.ok = FALSE
                  THEN Thrown(400, IF payload.error # "" THEN payload.error
                                   ELSE "Calcul win probability en erreur.",
                              0, PayloadDetail(payload))
                  ELSE Returned(payload)
             ELSE Thrown(502, "Reponse JSON win probability introuvable dans stdout.",
                         0, TextDetail("stdout", r.stdout))

runWinProbabilityNoPayloadFails(r) ==
    IF r.timedOut
    THEN Thrown(504, "Timeout win probability", 0, CapturedOutput(r.stderr, r.stdout))
    ELSE LET payload == parseMarkedPayload(r.stdout, WINPROB_MARKER)
         IN  IF payload # Null
             THEN IF payload.ok = FALSE
                  THEN Thrown(400, IF payload.error # "" THEN payload.error
                                   ELSE "Calcul win probability en erreur.",
                              0, PayloadDetail(payload))
                  ELSE Returned(payload)
             ELSE Thrown(502, "Le script win probability a echoue (exit)", r.code,
                         CapturedOutput(r.stderr, r.stdout))

\* runWinProbability after its await.
runWinProbability(r) ==
    IF r.timedOut
    THEN Thrown(504, "Timeout win probability", 0, CapturedOutput(r.stderr, r.stdout))
    ELSE LET payload == parseMarkedPayload(r.stdout, WINPROB_MARKER)
         IN  IF payload # Null
             THEN IF payload.ok = FALSE
                  THEN Thrown(400,
                              IF payload.error # "" THEN payload.error
                              ELSE "Calcul win probability en erreur.",
                              0, PayloadDetail(payload))
                  ELSE Returned(payload)
             ELSE IF r.code # 0
                  THEN Thrown(502, "Le script win probability a echoue (exit)", r.code,
                              CapturedOutput(r.stderr, r.stdout))
                  ELSE Thrown(502, "Reponse JSON win probability introuvable dans stdout.",
                              0, TextDetail("stdout", r.stdout))

\* What resolveActiveMatchId returns: a payload of the resolver, or one of its
\* own failure objects.
ResolverObject(kind, ok, match_id, error, exit, detail) ==
    [kind |-> kind, ok |-> ok, match_id |-> match_id, error |-> error,
     exit |-> exit, detail |-> detail]
NoResolvedMatch == ResolverObject("none", FALSE, "", "", 0, NoDetail)

\* resolveActiveMatchId after its await.
resolveActiveMatchId(r) ==
    IF r.timedOut
    THEN ResolverObject("failure", FALSE, "", "Timeout resolve match", 0,
                        CapturedOutput(r.stderr, r.stdout))
    ELSE LET payload == parseMarkedPayload(r.stdout, MATCH_RESOLVE_MARKER)
         IN  IF payload # Null
             THEN ResolverObject("payload", payload.ok, payload.match_id, payload.error,
                                 0, NoDetail)
             ELSE IF r.code # 0
                  THEN ResolverObject("failure", FALSE, "", "Resolve match script failed (exit)",
                                      r.code, CapturedOutput(r.stderr, r.stdout))
                  ELSE ResolverObject("failure", FALSE, "", "Resolve match payload introuvable.",
                                      0, NoDetail)

(***************************************************************************)
(* Proxy: spawnProcess.  The closure of one call: the child, the captured  *)
(* streams, the flags, the timer and the promise.                          *)
(***************************************************************************)
\* The arguments of a spawn: the script, and the id after --match-id ("" when
\* the flag is not pushed).
NoArgs == [script |-> "none", matchId |-> ""]
ResolverArgs == [script |-> "resolve_match", matchId |-> ""]
WinProbArgs(matchId) == [script |-> "win_probability", matchId |-> matchId]

\* closedWith is the code the 'close' event carried (history).
NoChild ==
    [st |-> "none", stdout |-> <<>>, stderr |-> <<>>, settled |-> FALSE,
     timedOut |-> FALSE, timer |-> "none", code |-> 0, promise |-> "none",
     args |-> NoArgs, closedWith |-> 0]

\* spawnProcess up to the return of its promise.  The spawn starts the child
\* or fails (the child then emits 'error', later 'close').
spawnProcess(args, started) ==
    [st |-> IF started THEN "running" ELSE "failed", stdout |-> <<>>, stderr |-> <<>>,
     settled |-> FALSE, timedOut |-> FALSE, timer |-> "armed", code |-> 0,
     promise |-> "pending", args |-> args, closedWith |-> 0]

\* The code of the 'close' event taken as it is, null included (a variant the
\* properties must tell from NumberOrZero).
NumberOrZeroOfNumbers(code) == code

\* Number(code || 0)
NumberOrZero(code) == IF code = NullCode THEN 0 ELSE code

\* The timer's callback without the kill (a variant the properties must tell
\* from OnTimeout).
OnTimeoutNoKill(c) == [c EXCEPT !.timedOut = TRUE, !.timer = "fired"]

\* The timer's callback: timedOut = true; child.kill("SIGKILL").
OnTimeout(c) == [c EXCEPT !.timedOut = TRUE, !.timer = "fired", !.st = "killed"]

\* The 'close' listener without its settled test (a variant the properties
\* must tell from OnClose).
OnCloseUnguarded(c, code) ==
    [c EXCEPT !.settled = TRUE, !.timer = "cleared", !.promise = "resolved",
              !.code = NumberOrZero(code)]

\* child.on("close")
OnClose(c, code) ==
    IF c.settled THEN c
    ELSE [c EXCEPT !.settled = TRUE, !.timer = "cleared", !.promise = "resolved",
                   !.code = NumberOrZero(code)]

\* child.on("error")
OnError(c) ==
    IF c.settled THEN c
    ELSE [c EXCEPT !.settled = TRUE, !.timer = "cleared", !.promise = "rejected"]

\* The value the promise resolved with.
Resolved(c) == [code |-> c.code, stdout |-> c.stdout, stderr |-> c.stderr,
                timedOut |-> c.timedOut]

(***************************************************************************)
(* Proxy: the /win-probability handler.                                    *)
(***************************************************************************)
NoAutoResolve == [present |-> FALSE, ok |-> FALSE, match_id |-> ""]
NoResponse ==
    [status |-> 0, ok |-> "absent", error |-> "", exit |-> 0, detail |-> NoDetail,
     payload |-> Null, auto_match_resolve |-> NoAutoResolve]

\* respondJson(res, status, {ok, error, detail})
ErrorResponse(status, ok, error, exit, detail) ==
    [status |-> status, ok |-> ok, error |-> error, exit |-> exit, detail |-> detail,
     payload |-> Null, auto_match_resolve |-> NoAutoResolve]

\* error?.detail || undefined
DetailOrUndefined(detail) ==
    IF detail.src \in {"stderr", "stdout"} /\ detail.text = <<>> THEN NoDetail ELSE detail

\* A catch that answers 200 (a variant the properties must tell from
\* CatchResponse).
CatchResponseSwallowed(outcome) ==
    ErrorResponse(200, "false", outcome.error, outcome.exit, DetailOrUndefined(outcome.detail))

\* The catch of the handler: status Number(error?.statusCode) || 502.
CatchResponse(outcome) ==
    ErrorResponse(IF outcome.statusCode # 0 THEN outcome.statusCode ELSE 502, "false",
                  outcome.error, outcome.exit, DetailOrUndefined(outcome.detail))

\* respondJson(res, 200, payload), the payload extended by auto_match_resolve
\* when the resolver ran.
SuccessResponse(payload, rm) ==
    [status |-> 200, ok |-> IF payload.ok THEN "true" ELSE "false", error |-> "",
     exit |-> 0, detail |-> NoDetail, payload |-> payload,
     auto_match_resolve |->
        IF rm.kind = "none" THEN NoAutoResolve
        ELSE [present |-> TRUE, ok |-> rm.ok, match_id |-> rm.match_id]]

\* The object of resolveActiveMatchId as the handler keeps it: the handler reads
\* ok and match_id only, the detail is dropped here.
Kept(rm) == [kind |-> rm.kind, ok |-> rm.ok, match_id |-> rm.match_id,
             error |-> rm.error, exit |-> rm.exit]

\* No spawnProcess call made yet for the request.
NoSpawns == [resolve_match |-> 0, win_probability |-> 0]

\* runWinProbability up to its await: the script directory is checked, then
\* the computation is spawned.
StartWinProbability(matchId, dirExists, started) ==
    IF ~dirExists
    THEN /\ response' = ErrorResponse(500, "false", "Dossier introuvable", 0, NoDetail)
         /\ phase' = "done"
         /\ child' = NoChild
         /\ UNCHANGED spawns
    ELSE /\ response' = NoResponse
         /\ phase' = "winprob"
         /\ child' = spawnProcess(WinProbArgs(matchId), started)
         /\ spawns' = [spawns EXCEPT !.win_probability = @ + 1]

\* The resolver's id ignored (a variant the properties must tell from
\* EffectiveMatchId).
EffectiveMatchIdRequested(requestedMatchId, rm) == requestedMatchId

\* effectiveMatchId after the resolver: its trimmed match_id when not empty.
EffectiveMatchId(requestedMatchId, rm) ==
    IF rm.match_id # "" THEN rm.match_id ELSE requestedMatchId

\* GET /win-probability?nickname=..[&match_id=..] up to the first await.
\* String(value || "").trim()
Trim(text) == IF text = " " THEN "" ELSE text

\* The match_id and matchId parameters of the query string as the caller wrote
\* them: absent or empty (""), whitespace only, or an id.
Queries == [match_id : {"", " ", "m1"}, matchId : {"", "m2"}]
NoQuery == [match_id |-> "", matchId |-> ""]

\* a || b of two strings
OrElse(a, b) == IF a # "" THEN a ELSE b

\* The same reading matchId before match_id (a variant the properties must
\* tell from RequestedMatchId).
RequestedMatchIdCamelFirst(query) == Trim(OrElse(OrElse(query.matchId, query.match_id), ""))

\* String(searchParams.get("match_id") || searchParams.get("matchId") || "").trim()
RequestedMatchId(query) == Trim(OrElse(OrElse(query.match_id, query.matchId), ""))

Request ==
    /\ phase = "idle"
    /\ \E method \in {"GET", "POST"}, nickname \in {"", "nick"},
          query \in Queries,
          dirExists \in BOOLEAN, resolverExists \in BOOLEAN, started \in BOOLEAN :
       LET requestedMatchId == RequestedMatchId(query) IN
         /\ req' = [method |-> method, nickname |-> nickname, match_id |-> requestedMatchId,
                    query |-> query]
         /\ IF method # "GET"
            THEN /\ response' = ErrorResponse(405, "absent", "Methode non autorisee", 0, NoDetail)
                 /\ phase' = "done"
                 /\ child' = NoChild
                 /\ resolvedMatch' = Kept(NoResolvedMatch)
                 /\ effectiveMatchId' = ""
                 /\ UNCHANGED spawns
            ELSE IF nickname = ""
            THEN /\ response' = ErrorResponse(400, "false", "Parametre 'nickname' requis.", 0, NoDetail)
                 /\ phase' = "done"
                 /\ child' = NoChild
                 /\ resolvedMatch' = Kept(NoResolvedMatch)
                 /\ effectiveMatchId' = ""
                 /\ UNCHANGED spawns
            ELSE IF requestedMatchId # ""
            THEN /\ resolvedMatch' = Kept(NoResolvedMatch)
                 /\ effectiveMatchId' = requestedMatchId
                 /\ StartWinProbability(requestedMatchId, dirExists, started)
            ELSE IF ~dirExists \/ ~resolverExists
            THEN \* resolveActiveMatchId returns without spawning
                 /\ resolvedMatch' =
                        Kept(ResolverObject("failure", FALSE, "",
                                            IF ~dirExists THEN "Dossier introuvable"
                                            ELSE "Script resolver introuvable", 0, NoDetail))
                 /\ effectiveMatchId' = ""
                 /\ \E dirExists2 \in BOOLEAN : StartWinProbability("", dirExists2, started)
            ELSE /\ resolvedMatch' = Kept(NoResolvedMatch)
                 /\ effectiveMatchId' = ""
                 /\ response' = NoResponse
                 /\ phase' = "resolve"
                 /\ child' = spawnProcess(ResolverArgs, started)
                 /\ spawns' = [spawns EXCEPT !.resolve_match = @ + 1]
    /\ aborted' = FALSE
    /\ UNCHANGED <<widgetVars, parseVars>>

Awaiting == phase \in {"resolve", "winprob"}
ChildMarker == IF phase = "resolve" THEN MATCH_RESOLVE_MARKER ELSE WINPROB_MARKER

\* child.stdout.on("data")
StdoutData ==
    /\ Awaiting
    /\ child.st \in {"running", "killed"}
    /\ Len(child.stdout) < MaxLines
    /\ \E line \in StdoutLines(ChildMarker) :
         child' = [child EXCEPT !.stdout = Append(@, line)]
    /\ UNCHANGED <<phase, req, resolvedMatch, effectiveMatchId, response, spawns, aborted,
                   widgetVars, parseVars>>

\* child.stderr.on("data")
StderrData ==
    /\ Awaiting
    /\ child.st \in {"running", "killed"}
    /\ Len(child.stderr) < MaxErr
    /\ child' = [child EXCEPT !.stderr = Append(@, ErrLine)]
    /\ UNCHANGED <<phase, req, resolvedMatch, effectiveMatchId, response, spawns, aborted,
                   widgetVars, parseVars>>

\* The timeout budget elapses before the child closed.
TimerFires ==
    /\ Awaiting
    /\ child.st = "running"
    /\ child.timer = "armed"
    /\ child' = OnTimeout(child)
    /\ UNCHANGED <<phase, req, resolvedMatch, effectiveMatchId, response, spawns, aborted,
                   widgetVars, parseVars>>

\* The child closes: on its own, by a foreign signal (code null), or killed.
ChildClose ==
    /\ Awaiting
    /\ child.st \in {"running", "killed"}
    /\ \E code \in ExitCodes :
         child' = [OnClose(child, code) EXCEPT !.st = "closed", !.closedWith = code]
    /\ UNCHANGED <<phase, req, resolvedMatch, effectiveMatchId, response, spawns, aborted,
                   widgetVars, parseVars>>

\* The spawn failed: 'error'.
ChildError ==
    /\ Awaiting
    /\ child.st = "failed"
    /\ ~child.settled
    /\ child' = OnError(child)
    /\ UNCHANGED <<phase, req, resolvedMatch, effectiveMatchId, response, spawns, aborted,
                   widgetVars, parseVars>>

\* 'close' of a child whose spawn failed, after its 'error'.
LateClose ==
    /\ child.st = "failed"
    /\ child.settled
    /\ child' = [OnClose(child, NullCode) EXCEPT !.st = "closed", !.closedWith = NullCode]
    /\ UNCHANGED <<phase, req, resolvedMatch, effectiveMatchId, response, spawns, aborted,
                   widgetVars, parseVars>>

\* The handler answering with the resolver's failure when it gave no id (a
\* variant the properties must tell from ResolveContinues).
ResolveContinuesStrict ==
    /\ phase = "resolve"
    /\ child.promise \in {"resolved", "rejected"}
    /\ IF child.promise = "rejected"
       THEN /\ response' = CatchResponse(Thrown(0, "spawn error", 0, NoDetail))
            /\ phase' = "done"
            /\ UNCHANGED <<child, resolvedMatch, effectiveMatchId, spawns>>
       ELSE LET rm == resolveActiveMatchId(Resolved(child))
            IN  /\ resolvedMatch' = Kept(rm)
                /\ effectiveMatchId' = EffectiveMatchId(effectiveMatchId, rm)
                /\ IF rm.match_id = ""
                   THEN /\ response' = CatchResponse(Thrown(502, rm.error, rm.exit, rm.detail))
                        /\ phase' = "done"
                        /\ UNCHANGED <<child, spawns>>
                   ELSE \E dirExists \in BOOLEAN, started \in BOOLEAN :
                            StartWinProbability(EffectiveMatchId(effectiveMatchId, rm),
                                                dirExists, started)
    /\ UNCHANGED <<req, aborted, widgetVars, parseVars>>

\* The handler spawning the resolver a second time when the first gave no id (a
\* variant the properties must tell from ResolveContinues).
ResolveContinuesRetry ==
    /\ phase = "resolve"
    /\ child.promise \in {"resolved", "rejected"}
    /\ IF child.promise = "rejected"
       THEN /\ response' = CatchResponse(Thrown(0, "spawn error", 0, NoDetail))
            /\ phase' = "done"
            /\ UNCHANGED <<child, resolvedMatch, effectiveMatchId, spawns>>
       ELSE LET rm == resolveActiveMatchId(Resolved(child))
            IN  IF rm.match_id = "" /\ spawns.resolve_match < 2
                THEN /\ child' = spawnProcess(ResolverArgs, TRUE)
                     /\ spawns' = [spawns EXCEPT !.resolve_match = @ + 1]
                     /\ UNCHANGED <<phase, resolvedMatch, effectiveMatchId, response>>
                ELSE /\ resolvedMatch' = Kept(rm)
                     /\ effectiveMatchId' = EffectiveMatchId(effectiveMatchId, rm)
                     /\ \E dirExists \in BOOLEAN, started \in BOOLEAN :
                            StartWinProbability(EffectiveMatchId(effectiveMatchId, rm),
                                                dirExists, started)
    /\ UNCHANGED <<req, aborted, widgetVars, parseVars>>

\* The handler after `await resolveActiveMatchId(...)`.
ResolveContinues ==
    /\ phase = "resolve"
    /\ child.promise \in {"resolved", "rejected"}
    /\ IF child.promise = "rejected"
       THEN /\ response' = CatchResponse(Thrown(0, "spawn error", 0, NoDetail))
            /\ phase' = "done"
            /\ UNCHANGED <<child, resolvedMatch, effectiveMatchId, spawns>>
       ELSE LET rm == resolveActiveMatchId(Resolved(child))
            IN  /\ resolvedMatch' = Kept(rm)
                /\ effectiveMatchId' = EffectiveMatchId(effectiveMatchId, rm)
                /\ \E dirExists \in BOOLEAN, started \in BOOLEAN :
                       StartWinProbability(EffectiveMatchId(effectiveMatchId, rm),
                                           dirExists, started)
    /\ UNCHANGED <<req, aborted, widgetVars, parseVars>>

\* The handler after `await runWinProbability(...)`.
WinProbabilityContinues ==
    /\ phase = "winprob"
    /\ child.promise \in {"resolved", "rejected"}
    /\ LET outcome == IF child.promise = "rejected"
                      THEN Thrown(0, "spawn error", 0, NoDetail)
                      ELSE runWinProbability(Resolved(child))
       IN  response' = IF outcome.threw THEN CatchResponse(outcome)
                       ELSE SuccessResponse(outcome.value, resolvedMatch)
    /\ phase' = "done"
    /\ UNCHANGED <<child, req, resolvedMatch, effectiveMatchId, spawns, aborted, widgetVars,
                   parseVars>>

\* The handler returns after respondJson: the request and its locals are gone.
HandlerReturns ==
    /\ phase = "done"
    /\ phase' = "idle"
    /\ req' = [method |-> "GET", nickname |-> "", match_id |-> "", query |-> NoQuery]
    /\ child' = NoChild
    /\ resolvedMatch' = Kept(NoResolvedMatch)
    /\ effectiveMatchId' = ""
    /\ response' = NoResponse
    /\ spawns' = NoSpawns
    /\ aborted' = FALSE
    /\ UNCHANGED <<widgetVars, parseVars>>

\* The caller aborts or closes the request while the handler awaits a child:
\* the handler and spawnProcess register no listener for it.
CallerAborts ==
    /\ Awaiting
    /\ ~aborted
    /\ aborted' = TRUE
    /\ UNCHANGED <<phase, req, child, resolvedMatch, effectiveMatchId, response, spawns,
                   widgetVars, parseVars>>

ProxyInit ==
    /\ phase = "idle"
    /\ req = [method |-> "GET", nickname |-> "", match_id |-> "", query |-> NoQuery]
    /\ child = NoChild
    /\ resolvedMatch = Kept(NoResolvedMatch)
    /\ effectiveMatchId = ""
    /\ response = NoResponse
    /\ spawns = NoSpawns
    /\ aborted = FALSE

ProxyNext ==
    \/ Request
    \/ StdoutData
    \/ StderrData
    \/ TimerFires
    \/ ChildClose
    \/ ChildError
    \/ LateClose
    \/ ResolveContinues
    \/ WinProbabilityContinues
    \/ HandlerReturns

(***************************************************************************)
(* Widget: values.                                                         *)
(***************************************************************************)
\* Number.NaN, for a percentage or a probability.
NaN == -999999
IsFinite(x) == x # NaN

\* The delta-band of applyLiveWinprobDelta, 0.05 percentage point.
DeltaBand == 5

\* The probabilities a payload may carry, in units of 0.0001: 0.5000, 0.5005,
\* and 50.06 given on the percent scale; or none that is a finite number.
ProbSamples == {5000, 5005, 500600, NaN}

\* What the proxy answers to a probability request: the HTTP class, the ok flag
\* of the JSON body, whether the error text holds a no-active-match phrase, the
\* match the sample was computed for and the probability.
Answer(http, ok, nam, match_id, prob) ==
    [http |-> http, ok |-> ok, nam |-> nam, match_id |-> match_id, prob |-> prob]
NoAnswer == Answer("none", FALSE, FALSE, "", NaN)

\* The request failed (fetchJson threw on the HTTP status, or the body has
\* ok === false) with a text that holds a no-active-match phrase.
FailsWithPhrase(a) == a.nam /\ (a.http = "error" \/ (a.http = "200" /\ ~a.ok))

\* The answers to a request sent with parameter match_id while `active` is the
\* player's match: a sample (its probability one of `samples`) of the requested
\* (else the active) match, a failure whose text names no active match, another
\* failure, or no answer in time.
ServerAnswers(match_id, active, samples) ==
    LET target == IF match_id # "" THEN match_id ELSE active
    IN  {Answer("error", FALSE, nam, "", NaN) : nam \in BOOLEAN}
        \cup {Answer("200", FALSE, nam, "", NaN) : nam \in BOOLEAN}
        \cup {Answer("abort", FALSE, FALSE, "", NaN)}
        \cup (IF target = "" THEN {}
              ELSE {Answer("200", TRUE, FALSE, target, p) : p \in samples})

\* A payload as the render functions read it.
LivePayload(no_active_match, prob, match_id) ==
    [no_active_match |-> no_active_match, prob |-> prob, match_id |-> match_id]
NullPayload == LivePayload(FALSE, NaN, "")
NoActiveMatchPayload == LivePayload(TRUE, NaN, "")

\* The fetch functions throwing on every failure, whatever its text (a variant
\* the properties must tell from FetchOutcome).
FetchOutcomeStrict(a) ==
    IF a.http # "200" \/ a.ok = FALSE
    THEN [threw |-> TRUE, payload |-> NullPayload]
    ELSE [threw |-> FALSE, payload |-> LivePayload(FALSE, a.prob, a.match_id)]

\* fetchJson followed by fetchWinProbability / fetchLiveWinProbability after
\* their await: the payload returned, or threw.
FetchOutcome(a) ==
    IF a.http # "200"
    THEN \* fetchJson threw: "HTTP <status> - <text>", a timeout or a network error
         IF a.nam THEN [threw |-> FALSE, payload |-> NoActiveMatchPayload]
         ELSE [threw |-> TRUE, payload |-> NullPayload]
    ELSE IF a.ok = FALSE
         THEN IF a.nam THEN [threw |-> FALSE, payload |-> NoActiveMatchPayload]
              ELSE [threw |-> TRUE, payload |-> NullPayload]
         ELSE [threw |-> FALSE, payload |-> LivePayload(FALSE, a.prob, a.match_id)]

\* getEffectiveMatchId()
getEffectiveMatchId(config, runtime) ==
    IF config.WINPROB_MATCH_ID # "" THEN config.WINPROB_MATCH_ID
    ELSE runtime.resolvedMatchId

\* The update storing whatever came back, an absent id too (a variant the
\* properties must tell from SetResolvedMatchId).
SetResolvedMatchIdAlways(config, runtime, returnedMatchId) ==
    IF config.WINPROB_MATCH_ID = ""
    THEN [runtime EXCEPT !.resolvedMatchId = returnedMatchId]
    ELSE runtime

\* The update of RUNTIME.resolvedMatchId from a returned match id.
SetResolvedMatchId(config, runtime, returnedMatchId) ==
    IF config.WINPROB_MATCH_ID = "" /\ returnedMatchId # ""
    THEN [runtime EXCEPT !.resolvedMatchId = returnedMatchId]
    ELSE runtime

shouldShowWinprob(config) == config.WINPROB_ENABLED
\* shouldShowLiveWinprob not reading the flag (a variant the properties must
\* tell from shouldShowLiveWinprob).
shouldShowLiveWinprobAlways(config) == TRUE

shouldShowLiveWinprob(config) == config.LIVE_WINPROB_ENABLED

(***************************************************************************)
(* Widget: rendering of the live badge.  The view is the part of the DOM   *)
(* and of RUNTIME the live badge owns; `match` is the history of which     *)
(* match the retained sample came from.                                    *)
(***************************************************************************)
LiveView(meta, hasDelta, deltaDir, deltaPct, last, match) ==
    [meta |-> meta, hasDelta |-> hasDelta, deltaDir |-> deltaDir, deltaPct |-> deltaPct,
     last |-> last, match |-> match]

\* clearLiveWinprobDelta
clearLiveWinprobDelta(v) == [v EXCEPT !.hasDelta = FALSE, !.deltaDir = "", !.deltaPct = NaN]

\* applyLiveWinprobDelta with the band's bounds taken as "up" and "down" (a
\* variant the properties must tell from applyLiveWinprobDelta).
applyLiveWinprobDeltaClosed(v, deltaPct, hasPrevious) ==
    IF ~hasPrevious THEN clearLiveWinprobDelta(v)
    ELSE [v EXCEPT !.hasDelta = TRUE, !.deltaPct = deltaPct,
                   !.deltaDir = IF deltaPct >= DeltaBand THEN "up"
                                ELSE IF deltaPct <= -DeltaBand THEN "down"
                                ELSE "flat"]

\* applyLiveWinprobDelta
applyLiveWinprobDelta(v, deltaPct, hasPrevious) ==
    IF ~hasPrevious THEN clearLiveWinprobDelta(v)
    ELSE [v EXCEPT !.hasDelta = TRUE, !.deltaPct = deltaPct,
                   !.deltaDir = IF deltaPct > DeltaBand THEN "up"
                                ELSE IF deltaPct < -DeltaBand THEN "down"
                                ELSE "flat"]

\* probability > 1 && probability <= 100 ? probability / 100 : probability,
\* then Math.max(0, Math.min(1, probability)) * 100, in units of 0.01 point.
ToPct(prob) ==
    LET scaled == IF prob > 10000 /\ prob <= 1000000 THEN prob \div 100 ELSE prob
        clamped == IF scaled < 0 THEN 0 ELSE IF scaled > 10000 THEN 10000 ELSE scaled
    IN  clamped

\* renderLiveWinProbability keeping the previous sample when no match is
\* active (a variant the properties must tell from renderLiveWinProbability).
renderLiveWinProbabilityKeep(payload, v) ==
    IF payload.no_active_match
    THEN [clearLiveWinprobDelta(v) EXCEPT !.meta = "Aucune partie en cours"]
    ELSE IF ~IsFinite(payload.prob)
    THEN [clearLiveWinprobDelta(v) EXCEPT !.meta = "Live indisponible", !.last = NaN,
                                          !.match = ""]
    ELSE LET pct == ToPct(payload.prob)
             hasPrevious == IsFinite(v.last)
             deltaPct == IF hasPrevious THEN pct - v.last ELSE NaN
         IN  [applyLiveWinprobDelta(v, deltaPct, hasPrevious) EXCEPT
                 !.meta = "", !.last = pct, !.match = payload.match_id]

\* renderLiveWinProbability keeping the previous sample when the payload holds
\* no finite probability (a variant the properties must tell from
\* renderLiveWinProbability).
renderLiveWinProbabilityKeepOnFailure(payload, v) ==
    IF payload.no_active_match
    THEN [clearLiveWinprobDelta(v) EXCEPT !.meta = "Aucune partie en cours", !.last = NaN,
                                          !.match = ""]
    ELSE IF ~IsFinite(payload.prob)
    THEN [clearLiveWinprobDelta(v) EXCEPT !.meta = "Live indisponible"]
    ELSE LET pct == ToPct(payload.prob)
             hasPrevious == IsFinite(v.last)
             deltaPct == IF hasPrevious THEN pct - v.last ELSE NaN
         IN  [applyLiveWinprobDelta(v, deltaPct, hasPrevious) EXCEPT
                 !.meta = "", !.last = pct, !.match = payload.match_id]

\* renderLiveWinProbability storing the sample only when it moved out of the
\* band (a variant the properties must tell from renderLiveWinProbability).
renderLiveWinProbabilityKeepFlat(payload, v) ==
    IF payload.no_active_match \/ ~IsFinite(payload.prob)
    THEN [clearLiveWinprobDelta(v) EXCEPT
             !.meta = IF payload.no_active_match THEN "Aucune partie en cours"
                      ELSE "Live indisponible",
             !.last = NaN, !.match = ""]
    ELSE LET pct == ToPct(payload.prob)
             hasPrevious == IsFinite(v.last)
             deltaPct == IF hasPrevious THEN pct - v.last ELSE NaN
             next == applyLiveWinprobDelta(v, deltaPct, hasPrevious)
         IN  [next EXCEPT !.meta = "",
                          !.last = IF next.deltaDir = "flat" THEN v.last ELSE pct,
                          !.match = payload.match_id]

\* renderLiveWinProbability
renderLiveWinProbability(payload, v) ==
    IF payload.no_active_match
    THEN [clearLiveWinprobDelta(v) EXCEPT !.meta = "Aucune partie en cours", !.last = NaN,
                                          !.match = ""]
    ELSE IF ~IsFinite(payload.prob)
    THEN [clearLiveWinprobDelta(v) EXCEPT !.meta = "Live indisponible", !.last = NaN,
                                          !.match = ""]
    ELSE LET pct == ToPct(payload.prob)
             hasPrevious == IsFinite(v.last)
             deltaPct == IF hasPrevious THEN pct - v.last ELSE NaN
         IN  [applyLiveWinprobDelta(v, deltaPct, hasPrevious) EXCEPT
                 !.meta = "", !.last = pct, !.match = payload.match_id]

\* The live badge's view in the state, and a view written back.
View == LiveView(DOM.liveMeta, DOM.hasDelta, DOM.deltaDir, DOM.deltaPct,
                 RUNTIME.lastLiveWinprobPct, sampleMatch)
DomOf(v, dom) == [dom EXCEPT !.liveMeta = v.meta, !.hasDelta = v.hasDelta,
                             !.deltaDir = v.deltaDir, !.deltaPct = v.deltaPct]

\* renderWinProbability: the text under the winprob badge.
renderWinProbability(payload) ==
    IF payload.no_active_match THEN "Aucune partie en cours"
    ELSE IF ~IsFinite(payload.prob) THEN "Aucune partie en cours"
    ELSE ""

(***************************************************************************)
(* Widget: refreshLiveWinProbability.                                      *)
(***************************************************************************)
LiveRequest(match_id) == [match_id |-> match_id, answer |-> NoAnswer]

\* refreshLiveWinProbability without its in-flight guard (a variant the
\* properties must tell from refreshLiveWinProbability).
refreshLiveWinProbabilityUnguarded(config, runtime, refreshing, reqs) ==
    IF ~shouldShowWinprob(config) \/ ~shouldShowLiveWinprob(config)
    THEN [refreshing |-> refreshing, reqs |-> reqs]
    ELSE [refreshing |-> TRUE,
          reqs |-> Append(reqs, LiveRequest(getEffectiveMatchId(config, runtime)))]

\* refreshLiveWinProbability up to its await: the flag and the requests in
\* flight after the call.
refreshLiveWinProbability(config, runtime, refreshing, reqs) ==
    IF ~shouldShowWinprob(config) \/ ~shouldShowLiveWinprob(config)
    THEN [refreshing |-> refreshing, reqs |-> reqs]
    ELSE IF refreshing
    THEN [refreshing |-> refreshing, reqs |-> reqs]
    ELSE [refreshing |-> TRUE,
          reqs |-> Append(reqs, LiveRequest(getEffectiveMatchId(config, runtime)))]

\* The interval timer of startLiveWinprobRefresh fires.
LiveTick ==
    /\ liveWinprobTimer
    /\ Len(liveReqs) < MaxInFlight
    /\ LET after == refreshLiveWinProbability(CONFIG, RUNTIME, isLiveWinprobRefreshing, liveReqs)
       IN  /\ isLiveWinprobRefreshing' = after.refreshing
           /\ liveReqs' = after.reqs
           /\ liveSkipped' = (liveSkipped \/ (liveReqs # <<>> /\ after.reqs = liveReqs))
    /\ UNCHANGED <<CONFIG, isRefreshing, RUNTIME, refreshTimer, liveWinprobTimer, DOM, load,
                   activeMatch, sampleMatch, inited, proxyVars, parseVars>>

\* The proxy's answer to a live request arrives, or its fetch is aborted.
LiveAnswer ==
    /\ \E i \in 1..Len(liveReqs) :
         /\ liveReqs[i].answer = NoAnswer
         /\ \E a \in ServerAnswers(liveReqs[i].match_id, activeMatch, ProbSamples) :
               liveReqs' = [liveReqs EXCEPT ![i].answer = a]
    /\ UNCHANGED <<CONFIG, isRefreshing, isLiveWinprobRefreshing, RUNTIME, refreshTimer,
                   liveWinprobTimer, DOM, load, activeMatch, sampleMatch, inited, liveSkipped, proxyVars, parseVars>>

RemoveAt(seq, i) == SubSeq(seq, 1, i - 1) \o SubSeq(seq, i + 1, Len(seq))

\* refreshLiveWinProbability resetting its flag after the render of a payload
\* only, not in a finally (a variant the properties must tell from
\* LiveSettles).
LiveSettlesNoFinally ==
    /\ \E i \in 1..Len(liveReqs) :
         /\ liveReqs[i].answer # NoAnswer
         /\ LET outcome == FetchOutcome(liveReqs[i].answer)
                v == renderLiveWinProbability(outcome.payload, View)
            IN  /\ RUNTIME' = [SetResolvedMatchId(CONFIG, RUNTIME, outcome.payload.match_id)
                                  EXCEPT !.lastLiveWinprobPct = v.last]
                /\ sampleMatch' = v.match
                /\ DOM' = [DomOf(v, DOM) EXCEPT
                              !.winprobError = IF outcome.threw THEN "error" ELSE @]
                /\ isLiveWinprobRefreshing' = outcome.threw
         /\ liveReqs' = RemoveAt(liveReqs, i)
    /\ liveSkipped' = FALSE
    /\ UNCHANGED <<CONFIG, isRefreshing, refreshTimer, liveWinprobTimer, load, activeMatch,
                   inited, proxyVars, parseVars>>

\* refreshLiveWinProbability after `await fetchLiveWinProbability()`: the
\* render, the catch and the finally.
LiveSettles ==
    /\ \E i \in 1..Len(liveReqs) :
         /\ liveReqs[i].answer # NoAnswer
         /\ LET outcome == FetchOutcome(liveReqs[i].answer)
                v == renderLiveWinProbability(outcome.payload, View)
            IN  /\ RUNTIME' = [SetResolvedMatchId(CONFIG, RUNTIME, outcome.payload.match_id)
                                  EXCEPT !.lastLiveWinprobPct = v.last]
                /\ sampleMatch' = v.match
                /\ DOM' = [DomOf(v, DOM) EXCEPT
                              !.winprobError = IF outcome.threw THEN "error" ELSE @]
         /\ liveReqs' = RemoveAt(liveReqs, i)
    /\ isLiveWinprobRefreshing' = FALSE
    /\ liveSkipped' = FALSE
    /\ UNCHANGED <<CONFIG, isRefreshing, refreshTimer, liveWinprobTimer, load, activeMatch,
                   inited, proxyVars, parseVars>>

(***************************************************************************)
(* Widget: loadAllData.                                                    *)
(***************************************************************************)
IdleLoad == [st |-> "idle", match_id |-> "", answer |-> NoAnswer, threw |-> FALSE,
             payload |-> NullPayload]

\* The fetches of loadAllData start: fetchWinProbability up to its await, or
\* Promise.resolve(null) in its place when the section is disabled.
Fetching(config, runtime) ==
    IF shouldShowWinprob(config)
    THEN [st |-> "fetching", match_id |-> getEffectiveMatchId(config, runtime),
          answer |-> NoAnswer, threw |-> FALSE, payload |-> NullPayload]
    ELSE [st |-> "settled", match_id |-> "", answer |-> NoAnswer, threw |-> FALSE,
          payload |-> NullPayload]

\* loadAllData without its isRefreshing test (a variant the properties must
\* tell from LoadAllDataBegins).
LoadAllDataBeginsUnguarded(throttled) ==
    /\ isRefreshing' = TRUE
    /\ DOM' = [DOM EXCEPT !.winprobError = ""]
    /\ IF /\ CONFIG.AUTO_RESOLVE_IDS
          /\ ~(RUNTIME.resolvedSteamId64 /\ getEffectiveMatchId(CONFIG, RUNTIME) # "")
          /\ ~(RUNTIME.bootstrapAt /\ throttled)
       THEN /\ RUNTIME' = [RUNTIME EXCEPT !.bootstrapAt = TRUE]
            /\ load' = [IdleLoad EXCEPT !.st = "bootstrap"]
       ELSE /\ RUNTIME' = RUNTIME
            /\ load' = Fetching(CONFIG, RUNTIME)

\* loadAllData up to its first await that waits for the network:
\* bootstrapWidgetIdentity asks the proxy for the ids unless they are known or
\* it ran within the last 5 s (`throttled`).
LoadAllDataBegins(throttled) ==
    IF isRefreshing
    THEN UNCHANGED <<isRefreshing, RUNTIME, DOM, load>>
    ELSE /\ isRefreshing' = TRUE
         /\ DOM' = [DOM EXCEPT !.winprobError = ""]
         /\ IF /\ CONFIG.AUTO_RESOLVE_IDS
               /\ ~(RUNTIME.resolvedSteamId64 /\ getEffectiveMatchId(CONFIG, RUNTIME) # "")
               /\ ~(RUNTIME.bootstrapAt /\ throttled)
            THEN /\ RUNTIME' = [RUNTIME EXCEPT !.bootstrapAt = TRUE]
                 /\ load' = [IdleLoad EXCEPT !.st = "bootstrap"]
            ELSE /\ RUNTIME' = RUNTIME
                 /\ load' = Fetching(CONFIG, RUNTIME)

\* initWidget: the first renders, then loadAllData.
InitWidget ==
    /\ inited = "no"
    /\ inited' = "loading"
    /\ isRefreshing' = TRUE
    /\ LET v == renderLiveWinProbability(NullPayload, View)
       IN  /\ DOM' = [DomOf(v, DOM) EXCEPT !.winprobMeta = renderWinProbability(NullPayload),
                                           !.winprobError = ""]
           /\ sampleMatch' = v.match
           /\ IF CONFIG.AUTO_RESOLVE_IDS
              THEN /\ RUNTIME' = [RUNTIME EXCEPT !.bootstrapAt = TRUE,
                                                 !.lastLiveWinprobPct = v.last]
                   /\ load' = [IdleLoad EXCEPT !.st = "bootstrap"]
              ELSE /\ RUNTIME' = [RUNTIME EXCEPT !.lastLiveWinprobPct = v.last]
                   /\ load' = Fetching(CONFIG, RUNTIME)
    /\ UNCHANGED <<CONFIG, isLiveWinprobRefreshing, refreshTimer, liveWinprobTimer, liveReqs,
                   activeMatch, liveSkipped, proxyVars, parseVars>>

\* The interval timer of startAutoRefresh fires.
RefreshTick ==
    /\ refreshTimer
    /\ \E throttled \in BOOLEAN : LoadAllDataBegins(throttled)
    /\ UNCHANGED <<CONFIG, isLiveWinprobRefreshing, refreshTimer, liveWinprobTimer, liveReqs,
                   activeMatch, sampleMatch, inited, liveSkipped, proxyVars, parseVars>>

\* bootstrapWidgetIdentity after its awaits: /resolve-live-match answered with
\* the active match or failed, and the Steam id was found or not; then the
\* fetches start.  Or bootstrapWidgetIdentity threw (its own try blocks cover
\* the two fetches only) and loadAllData goes to its catch.
BootstrapReturns ==
    /\ load.st = "bootstrap"
    /\ \/ \E answered \in BOOLEAN, steamFound \in BOOLEAN :
            LET resolved == IF answered THEN activeMatch ELSE ""
                runtime == [SetResolvedMatchId(CONFIG, RUNTIME, resolved) EXCEPT
                               !.resolvedSteamId64 = @ \/ steamFound]
            IN  /\ RUNTIME' = runtime
                /\ load' = Fetching(CONFIG, runtime)
       \/ /\ RUNTIME' = RUNTIME
          /\ load' = [IdleLoad EXCEPT !.st = "caught", !.threw = TRUE]
    /\ UNCHANGED <<CONFIG, isRefreshing, isLiveWinprobRefreshing, refreshTimer,
                   liveWinprobTimer, DOM, liveReqs, activeMatch, sampleMatch, inited,
                   liveSkipped, proxyVars, parseVars>>

\* fetchWinProbability after its await: the proxy answered /win-probability.
WinProbabilityReturns ==
    /\ load.st = "fetching"
    /\ \E a \in ServerAnswers(load.match_id, activeMatch, {5000}) :
         LET outcome == FetchOutcome(a)
         IN  /\ RUNTIME' = SetResolvedMatchId(CONFIG, RUNTIME, outcome.payload.match_id)
             /\ load' = [load EXCEPT !.st = "settled", !.answer = a,
                                     !.threw = outcome.threw, !.payload = outcome.payload]
    /\ UNCHANGED <<CONFIG, isRefreshing, isLiveWinprobRefreshing, refreshTimer,
                   liveWinprobTimer, DOM, liveReqs, activeMatch, sampleMatch, inited,
                   liveSkipped, proxyVars, parseVars>>

\* loadAllData after Promise.allSettled: the renders, the live refresh it
\* triggers, its finally; and, in initWidget, the start of the two timers.
LoadAllDataSettles ==
    /\ load.st = "settled"
    /\ Len(liveReqs) < MaxInFlight
    /\ LET show == shouldShowWinprob(CONFIG)
           nam == show /\ ~load.threw /\ load.payload.no_active_match
           v == IF ~show THEN View
                ELSE IF load.threw THEN renderLiveWinProbability(NullPayload, View)
                ELSE IF nam THEN renderLiveWinProbability(NoActiveMatchPayload, View)
                ELSE View
           after == IF show /\ ~load.threw /\ ~nam
                    THEN refreshLiveWinProbability(CONFIG, RUNTIME, isLiveWinprobRefreshing,
                                                   liveReqs)
                    ELSE [refreshing |-> isLiveWinprobRefreshing, reqs |-> liveReqs]
       IN  /\ DOM' = [DomOf(v, DOM) EXCEPT
                         !.winprobMeta = IF show THEN renderWinProbability(load.payload) ELSE @,
                         !.winprobError = IF show /\ load.threw THEN "error" ELSE @]
           /\ RUNTIME' = [RUNTIME EXCEPT !.lastLiveWinprobPct = v.last]
           /\ sampleMatch' = v.match
           /\ isLiveWinprobRefreshing' = after.refreshing
           /\ liveReqs' = after.reqs
           /\ liveSkipped' = (liveSkipped \/ (/\ show /\ ~load.threw /\ ~nam
                                               /\ liveReqs # <<>> /\ after.reqs = liveReqs))
    /\ isRefreshing' = FALSE
    /\ load' = IdleLoad
    /\ IF inited = "loading"
       THEN /\ inited' = "yes"
            /\ refreshTimer' = (CONFIG.REFRESH_INTERVAL_MS > 0)
            /\ liveWinprobTimer' = (/\ shouldShowWinprob(CONFIG)
                                    /\ shouldShowLiveWinprob(CONFIG)
                                    /\ CONFIG.LIVE_WINPROB_INTERVAL_MS > 0)
       ELSE UNCHANGED <<inited, refreshTimer, liveWinprobTimer>>
    /\ UNCHANGED <<CONFIG, activeMatch, proxyVars, parseVars>>

\* loadAllData after bootstrapWidgetIdentity threw: its catch and its finally;
\* and, in initWidget, the start of the two timers.
LoadAllDataCatches ==
    /\ load.st = "caught"
    /\ isRefreshing' = FALSE
    /\ load' = IdleLoad
    /\ IF inited = "loading"
       THEN /\ inited' = "yes"
            /\ refreshTimer' = (CONFIG.REFRESH_INTERVAL_MS > 0)
            /\ liveWinprobTimer' = (/\ shouldShowWinprob(CONFIG)
                                    /\ shouldShowLiveWinprob(CONFIG)
                                    /\ CONFIG.LIVE_WINPROB_INTERVAL_MS > 0)
       ELSE UNCHANGED <<inited, refreshTimer, liveWinprobTimer>>
    /\ UNCHANGED <<CONFIG, isLiveWinprobRefreshing, RUNTIME, DOM, liveReqs, activeMatch,
                   sampleMatch, liveSkipped, proxyVars, parseVars>>

\* Environment: the player's match ends, or a match starts.
MatchChanges ==
    /\ \E m \in {""} \cup MatchIds :
         /\ (activeMatch = "") # (m = "")
         /\ activeMatch' = m
    /\ UNCHANGED <<CONFIG, isRefreshing, isLiveWinprobRefreshing, RUNTIME, refreshTimer,
                   liveWinprobTimer, DOM, load, liveReqs, sampleMatch, inited, liveSkipped, proxyVars, parseVars>>

\* The configurations after applyRuntimeOverridesFromQuery: FACEIT_NICKNAME and
\* PROXY_BASE_URL are set, WINPROB_MATCH_ID is not forced.
Configs ==
    {[WINPROB_ENABLED |-> w, LIVE_WINPROB_ENABLED |-> l, WINPROB_MATCH_ID |-> "",
      AUTO_RESOLVE_IDS |-> TRUE, REFRESH_INTERVAL_MS |-> 60000,
      LIVE_WINPROB_INTERVAL_MS |-> 20000] : w \in BOOLEAN, l \in BOOLEAN}

WidgetInit ==
    /\ CONFIG \in Configs
    /\ isRefreshing = FALSE
    /\ isLiveWinprobRefreshing = FALSE
    /\ RUNTIME = [resolvedMatchId |-> "", resolvedSteamId64 |-> FALSE, bootstrapAt |-> FALSE,
                  lastLiveWinprobPct |-> NaN]
    /\ refreshTimer = FALSE
    /\ liveWinprobTimer = FALSE
    /\ DOM = [liveMeta |-> "", hasDelta |-> FALSE, deltaDir |-> "", deltaPct |-> NaN,
              winprobMeta |-> "", winprobError |-> ""]
    /\ load = IdleLoad
    /\ liveReqs = <<>>
    /\ activeMatch = ""
    /\ sampleMatch = ""
    /\ inited = "no"
    /\ liveSkipped = FALSE

WidgetNext ==
    \/ InitWidget
    \/ RefreshTick
    \/ BootstrapReturns
    \/ WinProbabilityReturns
    \/ LoadAllDataSettles
    \/ LoadAllDataCatches
    \/ LiveTick
    \/ LiveAnswer
    \/ LiveSettles
    \/ MatchChanges

(***************************************************************************)
(* parseMarkedPayload on its own: any captured stdout of up to             *)
(* MaxParseLines lines, scanned for either marker.                         *)
(***************************************************************************)
OtherMarker(marker) ==
    IF marker = WINPROB_MARKER THEN MATCH_RESOLVE_MARKER ELSE WINPROB_MARKER

\* Blank lines, free text, a line of the other script's marker, and lines of
\* the marker looked for.
ParseLines(marker) ==
    {BlankLine, LogLine, MarkerLine(OtherMarker(marker), "{ok,m2}"),
     MarkerLine(marker, "{ok,m1}"), MarkerLine(marker, "{ok,m2}"), MarkerLine(marker, "{bad")}

Stdouts(marker) == UNION {[1..n -> ParseLines(marker)] : n \in 0..MaxParseLines}

Unparsed == [stdout |-> <<>>, marker |-> WINPROB_MARKER, done |-> FALSE, result |-> Null]

ParseInit ==
    \E marker \in {WINPROB_MARKER, MATCH_RESOLVE_MARKER} :
      \E stdout \in Stdouts(marker) :
        parseRun = [stdout |-> stdout, marker |-> marker, done |-> FALSE, result |-> Null]

\* const payload = parseMarkedPayload(stdout, marker)
Parse ==
    /\ ~parseRun.done
    /\ parseRun' = [parseRun EXCEPT !.done = TRUE,
                                !.result = parseMarkedPayload(parseRun.stdout, parseRun.marker)]
    /\ UNCHANGED <<proxyVars, widgetVars, exchange, calls, alone, auxVars>>

(***************************************************************************)
(* One answer of the proxy as the widget takes it: a child of              *)
(* runWinProbability closed, the handler responds, fetchJson and           *)
(* fetchWinProbability make an outcome of the response.  A text is the     *)
(* sequence of its parts (the message, the lines of the detail); the body  *)
(* is short enough for fetchJson to keep it whole (180 characters).        *)
(***************************************************************************)
\* A line of output that holds a no-active-match phrase.
NamLine == [head |-> "No ongoing match", json |-> ""]

NoActiveMatchPhrases == {"aucune partie en cours", "no ongoing match", "no match in progress"}

\* String(value).toLowerCase(), on the texts that occur here.
ToLowerCase(text) ==
    CASE text = "No ongoing match" -> "no ongoing match"
      [] text = "Aucune partie en cours" -> "aucune partie en cours"
      [] OTHER -> text

\* matchesNoActiveMatchText: a part of the text is one of the phrases.
matchesNoActiveMatchText(parts) ==
    \E i \in 1..Len(parts) : ToLowerCase(parts[i]) \in NoActiveMatchPhrases

\* The text of JSON.stringify({ok, error, detail}): the message, then the
\* detail (captured lines, or the payload with its error text).
BodyText(resp) ==
    <<resp.error>> \o
        (IF resp.detail.src = "payload" THEN <<resp.detail.payload.error>>
         ELSE [i \in 1..Len(resp.detail.text) |-> resp.detail.text[i].head])

\* isNoActiveMatchPayload, on the fields a payload has here.
isNoActiveMatchPayload(payload) == matchesNoActiveMatchText(<<payload.error>>)

\* fetchJson on a response of the proxy: the body when the status is 200, else
\* an error whose message is "HTTP <status> - <body text>".  A successful
\* payload carries the probability 0.5000.
AnswerOf(resp) ==
    IF resp.status = 200
    THEN Answer("200", resp.payload.ok, isNoActiveMatchPayload(resp.payload),
                resp.payload.match_id, 5000)
    ELSE Answer("error", FALSE, matchesNoActiveMatchText(BodyText(resp)), "", NaN)

BodyLines == {LogLine, NamLine, MarkerLine(WINPROB_MARKER, "{ok,m1}"),
              MarkerLine(WINPROB_MARKER, "{fail,nam}")}

\* The values spawnProcess may resolve with.
ClosedChildren ==
    [code : {0, 1}, timedOut : BOOLEAN,
     stdout : UNION {[1..n -> BodyLines] : n \in 0..MaxBodyLines},
     stderr : {<<>>, <<ErrLine>>, <<NamLine>>}]

NoExchange ==
    [stage |-> "none", r |-> [code |-> 0, timedOut |-> FALSE, stdout |-> <<>>, stderr |-> <<>>],
     response |-> NoResponse, outcome |-> [threw |-> FALSE, payload |-> NullPayload]]

ExchangeInit == \E r \in ClosedChildren : exchange = [NoExchange EXCEPT !.stage = "closed", !.r = r]

\* The handler after `await runWinProbability(...)`, for a request that gave
\* its match_id.
ProxyResponds ==
    /\ exchange.stage = "closed"
    /\ LET outcome == runWinProbability(exchange.r)
       IN  exchange' = [exchange EXCEPT
               !.stage = "responded",
               !.response = IF outcome.threw THEN CatchResponse(outcome)
                            ELSE SuccessResponse(outcome.value, NoResolvedMatch)]
    /\ UNCHANGED <<proxyVars, widgetVars, parseRun, calls, alone, auxVars>>

\* fetchWinProbability after `await fetchJson(...)`.
WidgetFetches ==
    /\ exchange.stage = "responded"
    /\ exchange' = [exchange EXCEPT !.stage = "fetched",
                                    !.outcome = FetchOutcome(AnswerOf(exchange.response))]
    /\ UNCHANGED <<proxyVars, widgetVars, parseRun, calls, alone, auxVars>>

ExchangeNext == ProxyResponds \/ WidgetFetches

(***************************************************************************)
(* Two requests at once: two spawnProcess calls of runWinProbability, each *)
(* with its own closure, the events of their children interleaved.  Beside *)
(* the pair, each closure is kept as it is when its call runs alone and    *)
(* receives the same events.                                               *)
(***************************************************************************)
NoCalls == <<NoChild, NoChild>>

PairLines == {LogLine, MarkerLine(WINPROB_MARKER, "{ok,m1}")}

\* The events of a child, with what they carry.
DataEvent(type, line) == [type |-> type, line |-> line, code |-> 0]
CloseEvent(code) == [type |-> "close", line |-> LogLine, code |-> code]
OtherEvent(type) == [type |-> type, line |-> LogLine, code |-> 0]

\* The listener of the closure c that the event runs.
HandleEvent(c, ev) ==
    CASE ev.type = "stdout"  -> [c EXCEPT !.stdout = Append(@, ev.line)]
      [] ev.type = "stderr"  -> [c EXCEPT !.stderr = Append(@, ev.line)]
      [] ev.type = "timeout" -> OnTimeout(c)
      [] ev.type = "close"   -> [OnClose(c, ev.code) EXCEPT !.st = "closed"]
      [] ev.type = "error"   -> OnError(c)

\* One buffer `stdout` for all calls (a variant the properties must tell from
\* Deliver).
DeliverShared(cs, i, ev) ==
    [j \in 1..2 |-> IF j = i \/ ev.type = "stdout" THEN HandleEvent(cs[j], ev) ELSE cs[j]]

\* An event of the child of call i runs the listener that call i registered.
Deliver(cs, i, ev) == [cs EXCEPT ![i] = HandleEvent(cs[i], ev)]

PairStep(i, ev) ==
    /\ calls' = Deliver(calls, i, ev)
    /\ alone' = [alone EXCEPT ![i] = HandleEvent(alone[i], ev)]
    /\ UNCHANGED <<proxyVars, widgetVars, parseRun, exchange, auxVars>>

PairStdoutData ==
    \E i \in 1..2, line \in PairLines :
        /\ calls[i].st \in {"running", "killed"}
        /\ Len(calls[i].stdout) < MaxPairLines
        /\ PairStep(i, DataEvent("stdout", line))

PairStderrData ==
    \E i \in 1..2 :
        /\ calls[i].st \in {"running", "killed"}
        /\ Len(calls[i].stderr) < MaxErr
        /\ PairStep(i, DataEvent("stderr", ErrLine))

PairTimerFires ==
    \E i \in 1..2 :
        /\ calls[i].st = "running"
        /\ calls[i].timer = "armed"
        /\ PairStep(i, OtherEvent("timeout"))

PairChildClose ==
    \E i \in 1..2, code \in {NullCode, 0, 1} :
        /\ \/ calls[i].st \in {"running", "killed"}
           \/ calls[i].st = "failed" /\ calls[i].settled /\ code = NullCode
        /\ PairStep(i, CloseEvent(code))

PairChildError ==
    \E i \in 1..2 :
        /\ calls[i].st = "failed"
        /\ ~calls[i].settled
        /\ PairStep(i, OtherEvent("error"))

\* Both requests have reached `await spawnProcess(...)`.
PairInit ==
    \E s1 \in BOOLEAN, s2 \in BOOLEAN, m1 \in MatchIds, m2 \in MatchIds :
        /\ calls = <<spawnProcess(WinProbArgs(m1), s1), spawnProcess(WinProbArgs(m2), s2)>>
        /\ alone = calls

PairNext ==
    \/ PairStdoutData
    \/ PairStderrData
    \/ PairTimerFires
    \/ PairChildClose
    \/ PairChildError

(***************************************************************************)
(* Specifications.                                                         *)
(* The clocks of one win-probability request of the widget, with the       *)
(* default configuration: the widget's fetch deadline, and the budgets of  *)
(* the proxy's invocations, one after the other.  Time is in milliseconds  *)
(* and advances by TimeStep; a timer fires once its delay has elapsed.     *)
(***************************************************************************)
WINPROB_FETCH_TIMEOUT_MS == 45000
WINPROB_TIMEOUT_MS == 90000
MATCH_RESOLVE_TIMEOUT_MS == 25000

NoTiming == [now |-> 0, stage |-> "none", started |-> 0, client |-> "none", timedOut |-> FALSE]

\* Math.max(1000, Number(timeoutMs) || 90000) for the invocation in progress.
Budget(stage) ==
    IF stage = "resolve" THEN MATCH_RESOLVE_TIMEOUT_MS ELSE WINPROB_TIMEOUT_MS

InvocationRunning == timing.stage \in {"resolve", "winprob"}
ProxyTimerDue == InvocationRunning /\ timing.now - timing.started >= Budget(timing.stage)
FetchTimerDue == timing.client = "waiting" /\ timing.now >= WINPROB_FETCH_TIMEOUT_MS

\* fetchWinProbability sends its request at time 0, with or without match_id;
\* the handler spawns its first invocation.
TimingInit ==
    \E stage \in {"resolve", "winprob"} :
        timing = [NoTiming EXCEPT !.stage = stage, !.client = "waiting"]

\* Time passes while no timer is due.
TimePasses ==
    /\ InvocationRunning \/ timing.client = "waiting"
    /\ ~ProxyTimerDue
    /\ ~FetchTimerDue
    /\ timing' = [timing EXCEPT !.now = @ + TimeStep]
    /\ UNCHANGED <<baseVars, net, fwd, shown, scoring, timers>>

\* The handler past an await: the resolver is followed by the computation, the
\* computation by the response.
AfterInvocation ==
    IF timing.stage = "resolve"
    THEN [timing EXCEPT !.stage = "winprob", !.started = timing.now, !.timedOut = FALSE]
    ELSE [timing EXCEPT !.stage = "answered"]

\* The child of the invocation closes by itself.
InvocationCloses ==
    /\ InvocationRunning
    /\ timing' = AfterInvocation
    /\ UNCHANGED <<baseVars, net, fwd, shown, scoring, timers>>

\* The timer of spawnProcess kills the child, which closes.
ProxyTimerFires ==
    /\ ProxyTimerDue
    /\ timing' = [AfterInvocation EXCEPT !.timedOut = TRUE]
    /\ UNCHANGED <<baseVars, net, fwd, shown, scoring, timers>>

\* The body of the response reaches fetchJson.
FetchReceives ==
    /\ timing.stage = "answered"
    /\ timing.client = "waiting"
    /\ timing' = [timing EXCEPT !.client = "received"]
    /\ UNCHANGED <<baseVars, net, fwd, shown, scoring, timers>>

\* The timer of fetchJson aborts the request.
FetchTimerFires ==
    /\ FetchTimerDue
    /\ timing' = [timing EXCEPT !.client = "aborted"]
    /\ UNCHANGED <<baseVars, net, fwd, shown, scoring, timers>>

TimingNext ==
    \/ TimePasses
    \/ InvocationCloses
    \/ ProxyTimerFires
    \/ FetchReceives
    \/ FetchTimerFires

(***************************************************************************)
(* The requests the widget's page sends: the fetch calls of script.js, and *)
(* the avatar image the browser loads once renderFaceit set its src.  A    *)
(* URL is its base (new URL(route, base)), its route and, for /proxy, the  *)
(* service and path parameters; headers are the set of their names.        *)
(***************************************************************************)
LOCAL_PROXY == "http://127.0.0.1:8787"
AVATAR_URL == "https://distribution.faceit-cdn.net/images/avatar.jpg"
FACEIT_BASE == "https://open.faceit.com/data/v4/"

ProxyBases == {"", " ", LOCAL_PROXY, "http://127.0.0.1:8787/"}

ensureTrailingSlash(url) ==
    LET value == Trim(url)
    IN  IF value = LOCAL_PROXY THEN "http://127.0.0.1:8787/"
        ELSE IF value = "" THEN "/"
        ELSE value

NoRequest == [via |-> "none", root |-> "", route |-> "", service |-> "", path |-> "",
              headers |-> {}]

\* fetch(url.toString(), {method: "GET", headers, signal})
FetchRequest(url, headers) ==
    [via |-> "fetch", root |-> url.root, route |-> url.route, service |-> url.service,
     path |-> url.path, headers |-> headers]

\* The /proxy URL built on the upstream service itself (a variant the properties
\* must tell from buildProxyUrl).
buildProxyUrlUpstream(base, service, path) ==
    [root |-> FACEIT_BASE, route |-> path, service |-> service, path |-> path]

buildProxyUrl(base, service, path) ==
    [root |-> ensureTrailingSlash(base), route |-> "proxy", service |-> service, path |-> path]

\* apiFetch: throws (no request) when PROXY_BASE_URL trims to "".
apiFetch(base, service, path, extraHeaders) ==
    IF Trim(base) = "" THEN NoRequest
    ELSE FetchRequest(buildProxyUrl(base, service, path), {"Accept"} \cup extraHeaders)

\* The calls of apiFetch in script.js: none passes extraHeaders.
ApiCalls ==
    {<<"leetify", "v3/profile">>, <<"faceit", "players">>, <<"faceit", "players/id">>,
     <<"faceit", "players/id/stats/cs2">>, <<"faceit", "players/id/history">>}

\* fetchWinProbability and fetchLiveWinProbability up to fetchJson.
WinProbabilityRequest(base, nickname, route) ==
    IF Trim(nickname) = "" \/ Trim(base) = "" THEN NoRequest
    ELSE FetchRequest([root |-> ensureTrailingSlash(Trim(base)), route |-> route,
                       service |-> "", path |-> ""], {"Accept"})

\* resolveIdsFromProxy up to fetchJson.
ResolveRequest(base) ==
    IF Trim(base) = "" THEN NoRequest
    ELSE FetchRequest([root |-> ensureTrailingSlash(Trim(base)), route |-> "resolve-live-match",
                       service |-> "", path |-> ""], {"Accept"})

\* The browser loading the image whose src renderFaceit set.
ImageRequest(src) ==
    [via |-> "img", root |-> src, route |-> "", service |-> "", path |-> "", headers |-> {}]

\* The branch of the proxy's request handler that answers a GET of `pathname`:
\* the tests of requestUrl.pathname in their order, the last being
\* `pathname !== "/proxy"`, which answers 404 "Route inconnue".
RouteBranch(pathname) ==
    IF pathname = "/health" THEN "health"
    ELSE IF pathname = "/resolve-live-match" THEN "resolve-live-match"
    ELSE IF pathname = "/win-probability" THEN "win-probability"
    ELSE IF pathname # "/proxy" THEN "unknown"
    ELSE "proxy"

\* The answer of the unknown-route branch as the widget's fetchJson takes it:
\* HTTP 404 whose text holds no no-active-match phrase.
UnknownRouteAnswer == Answer("error", FALSE, FALSE, "", NaN)

\* The live badge before its first sample.
FirstView == LiveView("", FALSE, "", NaN, NaN, "")

\* A request of the page as the proxy handled it: the branch, and for a live
\* request answered by the unknown-route branch what the tick then renders.
HandledRequest(r) ==
    LET branch == RouteBranch("/" \o r.route)
    IN  [route |-> r.route, branch |-> branch,
         liveMeta |-> IF r.route = "live-win-probability" /\ branch = "unknown"
                      THEN renderLiveWinProbability(FetchOutcome(UnknownRouteAnswer).payload,
                                                    FirstView).meta
                      ELSE ""]

NoNet == [PROXY_BASE_URL |-> "", FACEIT_NICKNAME |-> "", sent |-> <<>>, avatar |-> "",
          handled |-> <<>>]

NetInit ==
    \E base \in ProxyBases, nickname \in {"", "nick"} :
        net = [NoNet EXCEPT !.PROXY_BASE_URL = base, !.FACEIT_NICKNAME = nickname]

\* A request goes out, unless the function threw or returned before fetchJson.
Sends(request) ==
    /\ request # NoRequest
    /\ Len(net.sent) < MaxRequests
    /\ net' = [net EXCEPT !.sent = Append(@, request)]
    /\ UNCHANGED <<baseVars, timing, fwd, shown, scoring, timers>>

ApiFetchCalled ==
    \E call \in ApiCalls : Sends(apiFetch(net.PROXY_BASE_URL, call[1], call[2], {}))

FetchWinProbabilityCalled ==
    Sends(WinProbabilityRequest(net.PROXY_BASE_URL, net.FACEIT_NICKNAME, "win-probability"))

FetchLiveWinProbabilityCalled ==
    Sends(WinProbabilityRequest(net.PROXY_BASE_URL, net.FACEIT_NICKNAME, "live-win-probability"))

ResolveIdsFromProxyCalled == Sends(ResolveRequest(net.PROXY_BASE_URL))

\* fetchFaceit returns a profile whose avatar is a URL of the upstream CDN.
FaceitProfileArrives ==
    /\ \E i \in 1..Len(net.sent) : net.sent[i].path = "players/id"
    /\ net.avatar = ""
    /\ net' = [net EXCEPT !.avatar = AVATAR_URL]
    /\ UNCHANGED <<baseVars, timing, fwd, shown, scoring, timers>>

\* renderFaceit: DOM.faceitAvatar.src = profile.avatar || DEFAULT_AVATAR (a
\* data: URI, which loads nothing).
RenderFaceit ==
    /\ net.avatar # ""
    /\ Sends(ImageRequest(net.avatar))

\* The proxy's request handler takes the next request the page sent to it and
\* dispatches on its pathname.
ProxyDispatches ==
    /\ \E i \in 1..Len(net.sent) :
         /\ net.sent[i].via = "fetch"
         /\ Len(net.handled) = Cardinality({j \in 1..(i - 1) : net.sent[j].via = "fetch"})
         /\ net' = [net EXCEPT !.handled = Append(@, HandledRequest(net.sent[i]))]
    /\ UNCHANGED <<baseVars, timing, fwd, shown, scoring, timers>>

NetNext ==
    \/ ProxyDispatches
    \/ ApiFetchCalled
    \/ FetchWinProbabilityCalled
    \/ FetchLiveWinProbabilityCalled
    \/ ResolveIdsFromProxyCalled
    \/ FaceitProfileArrives
    \/ RenderFaceit

(***************************************************************************)
(* Proxy: the /proxy route.  The keys are those of the environment (.env); *)
(* a header is a name with its value, the value of Authorization being the *)
(* key after "Bearer ".                                                    *)
(***************************************************************************)
LEETIFY_BASE == "https://api-public.cs-prod.leetify.com/"

\* SERVICE_BASE[service]; "" when the service has no entry.
SERVICE_BASE(service) ==
    CASE service = "faceit"  -> FACEIT_BASE
      [] service = "leetify" -> LEETIFY_BASE
      [] OTHER -> ""

\* String(...).trim().toLowerCase() of the service parameter.
ServiceOf(param) == IF param = "FACEIT" THEN "faceit" ELSE param

ServiceKey(keys, service) ==
    IF service = "faceit" THEN keys.FACEIT_API_KEY ELSE keys.LEETIFY_API_KEY

Bearer(key) == [name |-> "Authorization", value |-> key]

\* getServiceAuthHeaders without the check of the key (a variant the
\* properties must tell from getServiceAuthHeaders).
getServiceAuthHeadersUnchecked(service, keys) ==
    [threw |-> FALSE, headers |-> {Bearer(ServiceKey(keys, service))}]

getServiceAuthHeaders(service, keys) ==
    IF service = "faceit"
    THEN IF keys.FACEIT_API_KEY = "" THEN [threw |-> TRUE, headers |-> {}]
         ELSE [threw |-> FALSE, headers |-> {Bearer(keys.FACEIT_API_KEY)}]
    ELSE IF service = "leetify"
    THEN IF keys.LEETIFY_API_KEY = "" THEN [threw |-> TRUE, headers |-> {}]
         ELSE [threw |-> FALSE,
               headers |-> {Bearer(keys.LEETIFY_API_KEY),
                            [name |-> "_leetify_key", value |-> keys.LEETIFY_API_KEY]}]
    ELSE [threw |-> TRUE, headers |-> {}]

\* The values of the path parameter, with path.startsWith("/") and path.slice(1).
\* The last three are, after the slash, an absolute URL, a path from the root
\* and a reference that begins with a host.
ProxyPaths ==
    {"", "players", "/players", "/players/id",
     "/https://evil.example/steal", "//evil.example/steal", "///evil.example/steal"}
StartsWithSlash(path) == path \notin {"", "players"}
SliceOne(path) ==
    CASE path = "/players" -> "players"
      [] path = "/players/id" -> "players/id"
      [] path = "/https://evil.example/steal" -> "https://evil.example/steal"
      [] path = "//evil.example/steal" -> "/evil.example/steal"
      [] path = "///evil.example/steal" -> "//evil.example/steal"

\* The origin and the path of a base of SERVICE_BASE.
Origin(base) ==
    IF base = FACEIT_BASE THEN "https://open.faceit.com"
    ELSE "https://api-public.cs-prod.leetify.com"
Pathname(base) == IF base = FACEIT_BASE THEN <<"data", "v4">> ELSE <<>>

\* A reference as the URL parser reads it: its scheme and host when it has
\* them, whether its path starts at the root, and its path segments.
Reference(input) ==
    CASE input = "players" ->
            [scheme |-> "", host |-> "", rooted |-> FALSE, segments |-> <<"players">>]
      [] input = "players/id" ->
            [scheme |-> "", host |-> "", rooted |-> FALSE, segments |-> <<"players", "id">>]
      [] input = "https://evil.example/steal" ->
            [scheme |-> "https", host |-> "evil.example", rooted |-> TRUE,
             segments |-> <<"steal">>]
      [] input = "/evil.example/steal" ->
            [scheme |-> "", host |-> "", rooted |-> TRUE,
             segments |-> <<"evil.example", "steal">>]
      [] input = "//evil.example/steal" ->
            [scheme |-> "", host |-> "evil.example", rooted |-> TRUE,
             segments |-> <<"steal">>]

\* new URL(input, base): an input with a scheme is the URL, one with a host
\* takes the base's scheme only, one from the root takes the base's origin,
\* any other is resolved against the base's path.
NewURL(input, base) ==
    LET ref == Reference(input)
    IN  IF ref.scheme # "" \/ ref.host # ""
        THEN [origin |-> "https://" \o ref.host, pathname |-> ref.segments]
        ELSE IF ref.rooted
        THEN [origin |-> Origin(base), pathname |-> ref.segments]
        ELSE [origin |-> Origin(base), pathname |-> Pathname(base) \o ref.segments]

NoURL == [origin |-> "", pathname |-> <<>>]
NoUpstream == [base |-> "", path |-> "", url |-> NoURL, headers |-> {}]
NoForward ==
    [keys |-> [FACEIT_API_KEY |-> "", LEETIFY_API_KEY |-> ""],
     request |-> [method |-> "", service |-> "", path |-> ""],
     stage |-> "none", upstream |-> NoUpstream, status |-> 0]

ForwardInit ==
    \E fk \in {"", "faceit-key"}, lk \in {"", "leetify-key"} :
        fwd = [NoForward EXCEPT !.stage = "idle",
                                !.keys = [FACEIT_API_KEY |-> fk, LEETIFY_API_KEY |-> lk]]

\* The /proxy handler up to `await fetch(upstreamUrl, ...)` or to its response.
ProxyRouteRequest ==
    /\ fwd.stage = "idle"
    /\ \E method \in {"GET", "POST"}, param \in {"", "faceit", "FACEIT", "leetify", "steam"},
          path \in ProxyPaths :
         LET service == ServiceOf(param)
             auth == getServiceAuthHeaders(service, fwd.keys)
             answered(status) == [fwd EXCEPT !.stage = "responded", !.status = status,
                                      !.request = [method |-> method, service |-> service,
                                                   path |-> path]]
         IN  fwd' =
               IF method # "GET" THEN answered(405)
               ELSE IF SERVICE_BASE(service) = "" THEN answered(400)
               ELSE IF path = "" \/ ~StartsWithSlash(path) THEN answered(400)
               ELSE IF auth.threw THEN answered(502)
               ELSE [fwd EXCEPT !.stage = "upstream",
                                !.request = [method |-> method, service |-> service,
                                             path |-> path],
                                !.upstream = [base |-> SERVICE_BASE(service), path |-> SliceOne(path),
                                              url |-> NewURL(SliceOne(path),
                                                             SERVICE_BASE(service)),
                                              headers |-> {[name |-> "Accept",
                                                            value |-> "application/json"]}
                                                          \cup auth.headers]]
    /\ UNCHANGED <<baseVars, timing, net, shown, scoring, timers>>

\* The upstream answers: its status and body are relayed.
UpstreamResponds ==
    /\ fwd.stage = "upstream"
    /\ \E status \in {200, 401, 404} :
         fwd' = [fwd EXCEPT !.stage = "responded", !.status = status]
    /\ UNCHANGED <<baseVars, timing, net, shown, scoring, timers>>

\* fetch rejects: the catch answers 502.
UpstreamFails ==
    /\ fwd.stage = "upstream"
    /\ fwd' = [fwd EXCEPT !.stage = "responded", !.status = 502]
    /\ UNCHANGED <<baseVars, timing, net, shown, scoring, timers>>

\* The handler returned; the next request.
ProxyRouteReturns ==
    /\ fwd.stage = "responded"
    /\ fwd' = [NoForward EXCEPT !.stage = "idle", !.keys = fwd.keys]
    /\ UNCHANGED <<baseVars, timing, net, shown, scoring, timers>>

ForwardNext ==
    \/ ProxyRouteRequest
    \/ UpstreamResponds
    \/ UpstreamFails
    \/ ProxyRouteReturns

(***************************************************************************)
(* Widget: the value of the winprob badge for one payload.  The value is   *)
(* the text of pct.toFixed(1), in tenths of a percent; NaN stands for the  *)
(* text "--%".                                                             *)
(***************************************************************************)
\* The probabilities a payload may carry: NaN (none), fractions 0.00 .. 1.00,
\* and values on the percent scale 2 .. 100.
PayloadProbabilities ==
    {NaN} \cup {k * 100 : k \in 0..MaxProbSteps} \cup {k * 10000 : k \in 2..MaxProbSteps}

\* pct.toFixed(1), pct in units of 0.01 point.
ToFixed1(pct) == (pct + 5) \div 10

\* renderWinProbability: DOM.winprobValue.textContent.
winprobValue(payload) ==
    IF payload.no_active_match THEN NaN
    ELSE IF ~IsFinite(payload.prob) THEN NaN
    ELSE ToFixed1(ToPct(payload.prob))

NoShown == [st |-> "none", prob |-> NaN, value |-> NaN]

ShownInit ==
    \E prob \in PayloadProbabilities : shown = [st |-> "received", prob |-> prob, value |-> NaN]

\* loadAllData renders the payload that fetchWinProbability returned.
RenderWinProbability ==
    /\ shown.st = "received"
    /\ shown' = [shown EXCEPT !.st = "rendered",
                              !.value = winprobValue(LivePayload(FALSE, shown.prob, "m1"))]
    /\ UNCHANGED <<baseVars, timing, net, fwd, scoring, timers>>

(***************************************************************************)
(* The statistical model, for one player: the Stats Aggregator with its    *)
(* fallback policy, the Metric Normalizer and the Composite Scorer.        *)
(* Weights are in percent, normalized metrics in thousandths, a score in   *)
(* units of 0.00001; kd_ratio is in hundredths.                            *)
(***************************************************************************)
Metrics == {"elo", "kd_ratio", "winrate_global", "winrate_map", "headshot_pct",
            "avg_kills_per_match"}

\* Weights that favour the elo (a variant the properties must tell from Weights).
WeightsSkewed ==
    [elo |-> 35, kd_ratio |-> 20, winrate_global |-> 20, winrate_map |-> 20,
     headshot_pct |-> 5, avg_kills_per_match |-> 5]

\* The fixed weights of the Composite Scorer.
Weights ==
    [elo |-> 30, kd_ratio |-> 20, winrate_global |-> 20, winrate_map |-> 20,
     headshot_pct |-> 5, avg_kills_per_match |-> 5]

\* The (lower, upper) bounds of the Metric Normalizer.
MetricBounds ==
    [elo |-> <<500, 3500>>, kd_ratio |-> <<50, 200>>, winrate_global |-> <<0, 100>>,
     winrate_map |-> <<0, 100>>, headshot_pct |-> <<0, 100>>,
     avg_kills_per_match |-> <<5, 30>>]

\* clamp((raw - lower) / (upper - lower), 0, 1)
normalize(metric, raw) ==
    LET lower == MetricBounds[metric][1]
        upper == MetricBounds[metric][2]
    IN  IF raw <= lower THEN 0
        ELSE IF raw >= upper THEN 1000
        ELSE ((raw - lower) * 1000) \div (upper - lower)

\* What the upstream gives for a player: lifetime numbers and the matches
\* played on the active map with those won.
UpstreamPlayers ==
    [elo : {400, 2000, 50000}, kd_ratio : {80, 120}, winrate_global : {0, 55, 100},
     headshot_pct : {45}, avg_kills_per_match : {12, 40},
     map_matches : {0, 2}, map_wins : {0, 1, 2}]

\* The record with winrate_map left at zero when the map has no history (a
\* variant the properties must tell from BuildRecord).
BuildRecordNoFallback(up) ==
    [elo |-> up.elo, kd_ratio |-> up.kd_ratio, winrate_global |-> up.winrate_global,
     winrate_map |-> IF up.map_matches = 0 THEN 0
                     ELSE (up.map_wins * 100) \div up.map_matches,
     headshot_pct |-> up.headshot_pct, avg_kills_per_match |-> up.avg_kills_per_match,
     map_stat_is_fallback |-> up.map_matches = 0]

\* The PlayerMetricRecord of the Stats Aggregator, with the fallback policy.
BuildRecord(up) ==
    [elo |-> up.elo, kd_ratio |-> up.kd_ratio, winrate_global |-> up.winrate_global,
     winrate_map |-> IF up.map_matches = 0 THEN up.winrate_global
                     ELSE (up.map_wins * 100) \div up.map_matches,
     headshot_pct |-> up.headshot_pct, avg_kills_per_match |-> up.avg_kills_per_match,
     map_stat_is_fallback |-> up.map_matches = 0]

RECURSIVE WeightedSum(_, _, _)
WeightedSum(ms, weights, record) ==
    IF ms = {} THEN 0
    ELSE LET m == CHOOSE x \in ms : TRUE
         IN  weights[m] * normalize(m, record[m]) + WeightedSum(ms \ {m}, weights, record)

\* score(player) = sum over the metrics of weight[m] * normalize(m, raw[m])
CompositeScore(weights, record) == WeightedSum(Metrics, weights, record)

NoRecord == BuildRecord([elo |-> 0, kd_ratio |-> 0, winrate_global |-> 0, headshot_pct |-> 0,
                         avg_kills_per_match |-> 0, map_matches |-> 0, map_wins |-> 0])
NoScoring == [st |-> "none", up |-> NoRecord, record |-> NoRecord, weights |-> Weights,
              score |-> 0]

ScoringInit ==
    \E up \in UpstreamPlayers :
        /\ up.map_wins <= up.map_matches
        /\ scoring = [NoScoring EXCEPT !.st = "fetched", !.up = up]

\* The Stats Aggregator makes the player's record.
Aggregate ==
    /\ scoring.st = "fetched"
    /\ scoring' = [scoring EXCEPT !.st = "aggregated", !.record = BuildRecord(scoring.up)]
    /\ UNCHANGED <<baseVars, timing, net, fwd, shown, timers>>

\* The Normalizer and the Composite Scorer make the player's score.
Score ==
    /\ scoring.st = "aggregated"
    /\ scoring' = [scoring EXCEPT !.st = "scored",
                                  !.score = CompositeScore(scoring.weights, scoring.record)]
    /\ UNCHANGED <<baseVars, timing, net, fwd, shown, timers>>

ScoringNext == Aggregate \/ Score

(***************************************************************************)
(* Widget: the two interval timers.  A handle is the id setInterval         *)
(* returned (a positive integer), 0 stands for null; `active` holds the     *)
(* intervals the browser still runs.                                        *)
(***************************************************************************)
Intervals == {NaN, 0 - 1000, 0, 60000}

TimerConfigs ==
    [WINPROB_ENABLED : BOOLEAN, LIVE_WINPROB_ENABLED : BOOLEAN,
     REFRESH_INTERVAL_MS : Intervals, LIVE_WINPROB_INTERVAL_MS : Intervals]

NoTimers ==
    [refreshTimer |-> 0, liveWinprobTimer |-> 0, active |-> {}, nextId |-> 1,
     CONFIG |-> [WINPROB_ENABLED |-> FALSE, LIVE_WINPROB_ENABLED |-> FALSE,
                 REFRESH_INTERVAL_MS |-> NaN, LIVE_WINPROB_INTERVAL_MS |-> NaN],
     last |-> "none"]

\* setInterval(callback, interval): the new interval's id.
setInterval(t, kind) ==
    [t EXCEPT !.active = @ \cup {[id |-> t.nextId, kind |-> kind]}, !.nextId = @ + 1]

\* clearInterval(id)
clearInterval(t, id) == [t EXCEPT !.active = {a \in @ : a.id # id}]

\* stopAutoRefresh dropping the handle without clearInterval (a variant the
\* properties must tell from stopAutoRefresh).
stopAutoRefreshHandleOnly(t) == [t EXCEPT !.refreshTimer = 0]

\* stopAutoRefresh
stopAutoRefresh(t) ==
    IF t.refreshTimer # 0
    THEN [clearInterval(t, t.refreshTimer) EXCEPT !.refreshTimer = 0]
    ELSE t

\* startAutoRefresh
startAutoRefresh(t) ==
    LET stopped == stopAutoRefresh(t)
        interval == t.CONFIG.REFRESH_INTERVAL_MS
    IN  IF ~IsFinite(interval) \/ interval <= 0 THEN stopped
        ELSE [setInterval(stopped, "refresh") EXCEPT !.refreshTimer = stopped.nextId]

\* stopLiveWinprobRefresh
stopLiveWinprobRefresh(t) ==
    IF t.liveWinprobTimer # 0
    THEN [clearInterval(t, t.liveWinprobTimer) EXCEPT !.liveWinprobTimer = 0]
    ELSE t

\* startLiveWinprobRefresh
startLiveWinprobRefresh(t) ==
    LET stopped == stopLiveWinprobRefresh(t)
        interval == t.CONFIG.LIVE_WINPROB_INTERVAL_MS
    IN  IF ~shouldShowWinprob(t.CONFIG) \/ ~shouldShowLiveWinprob(t.CONFIG) THEN stopped
        ELSE IF ~IsFinite(interval) \/ interval <= 0 THEN stopped
        ELSE [setInterval(stopped, "live") EXCEPT !.liveWinprobTimer = stopped.nextId]

TimersInit ==
    \E config \in TimerConfigs : timers = [NoTimers EXCEPT !.CONFIG = config, !.last = "loaded"]

StartAutoRefresh ==
    /\ timers.nextId <= MaxTimers
    /\ timers' = [startAutoRefresh(timers) EXCEPT !.last = "startAutoRefresh"]
    /\ UNCHANGED <<baseVars, timing, net, fwd, shown, scoring>>

StopAutoRefresh ==
    /\ timers' = [stopAutoRefresh(timers) EXCEPT !.last = "stopAutoRefresh"]
    /\ UNCHANGED <<baseVars, timing, net, fwd, shown, scoring>>

StartLiveWinprobRefresh ==
    /\ timers.nextId <= MaxTimers
    /\ timers' = [startLiveWinprobRefresh(timers) EXCEPT !.last = "startLiveWinprobRefresh"]
    /\ UNCHANGED <<baseVars, timing, net, fwd, shown, scoring>>

StopLiveWinprobRefresh ==
    /\ timers' = [stopLiveWinprobRefresh(timers) EXCEPT !.last = "stopLiveWinprobRefresh"]
    /\ UNCHANGED <<baseVars, timing, net, fwd, shown, scoring>>

TimersNext ==
    \/ StartAutoRefresh
    \/ StopAutoRefresh
    \/ StartLiveWinprobRefresh
    \/ StopLiveWinprobRefresh

AuxIdle == timing = NoTiming /\ net = NoNet /\ fwd = NoForward /\ shown = NoShown
           /\ scoring = NoScoring /\ timers = NoTimers

(***************************************************************************)
\* The proxy serving /win-probability.
Init ==
    /\ ProxyInit
    /\ WidgetInit
    /\ CONFIG.WINPROB_ENABLED /\ CONFIG.LIVE_WINPROB_ENABLED
    /\ parseRun = Unparsed
    /\ exchange = NoExchange
    /\ calls = NoCalls
    /\ alone = NoCalls
    /\ AuxIdle

Next == ProxyNext

Spec == Init /\ [][Next]_vars

\* The event loop runs every job that is ready (timers, 'error', the
\* continuations of awaits), and a child sent SIGKILL closes.
KilledChildCloses == ChildClose /\ child.st = "killed"

FairSpec ==
    /\ Spec
    /\ WF_vars(TimerFires)
    /\ WF_vars(KilledChildCloses)
    /\ WF_vars(ChildError)
    /\ WF_vars(ResolveContinues)
    /\ WF_vars(WinProbabilityContinues)

\* The widget.
WidgetStart == ProxyInit /\ WidgetInit /\ parseRun = Unparsed /\ exchange = NoExchange
               /\ calls = NoCalls /\ alone = NoCalls /\ AuxIdle

WidgetSpec == WidgetStart /\ [][WidgetNext]_vars

\* The refresh cycle of the widget, with what the browser guarantees: a
\* pending fetchJson settles (its timer aborts it at the latest), and the code
\* after an await runs.  The live requests that a refresh starts stay pending.
RefreshNext ==
    \/ InitWidget
    \/ RefreshTick
    \/ BootstrapReturns
    \/ WinProbabilityReturns
    \/ LoadAllDataSettles
    \/ LoadAllDataCatches
    \/ MatchChanges

RefreshSpec ==
    /\ WidgetStart
    /\ [][RefreshNext]_vars
    /\ WF_vars(BootstrapReturns)
    /\ WF_vars(WinProbabilityReturns)
    /\ WF_vars(LoadAllDataSettles)
    /\ WF_vars(LoadAllDataCatches)

\* The live tracker after the first load of the widget, with what the browser
\* guarantees: the fetch of a live request is answered or aborted by the timer
\* of fetchJson, and the code after the await runs.
LiveNext ==
    \/ InitWidget
    \/ BootstrapReturns
    \/ WinProbabilityReturns
    \/ LoadAllDataSettles
    \/ LoadAllDataCatches
    \/ LiveTick
    \/ LiveAnswer
    \/ LiveSettles
    \/ MatchChanges

LiveSpec ==
    /\ WidgetStart
    /\ [][LiveNext]_vars
    /\ WF_vars(LiveAnswer)
    /\ WF_vars(LiveSettles)

\* parseMarkedPayload on its own.
ParseStart == ProxyInit /\ WidgetInit /\ CONFIG.WINPROB_ENABLED /\ CONFIG.LIVE_WINPROB_ENABLED
              /\ ParseInit /\ exchange = NoExchange /\ calls = NoCalls /\ alone = NoCalls
              /\ AuxIdle

ParseSpec == ParseStart /\ [][Parse]_vars

\* The handler with callers that may abort their request.
AbortNext == ProxyNext \/ CallerAborts

AbortSpec == Init /\ [][AbortNext]_vars

\* One answer of the proxy as the widget takes it.
ExchangeStart == ProxyInit /\ WidgetInit /\ CONFIG.WINPROB_ENABLED /\ CONFIG.LIVE_WINPROB_ENABLED
                 /\ parseRun = Unparsed /\ ExchangeInit /\ calls = NoCalls /\ alone = NoCalls
                 /\ AuxIdle

ExchangeSpec == ExchangeStart /\ [][ExchangeNext]_vars

\* The clocks of one win-probability request.
TimingStart == ProxyInit /\ WidgetInit /\ CONFIG.WINPROB_ENABLED /\ CONFIG.LIVE_WINPROB_ENABLED
               /\ parseRun = Unparsed /\ exchange = NoExchange /\ calls = NoCalls
               /\ alone = NoCalls /\ TimingInit /\ net = NoNet /\ fwd = NoForward
               /\ shown = NoShown /\ scoring = NoScoring /\ timers = NoTimers

TimingSpec == TimingStart /\ [][TimingNext]_vars

\* The requests the widget's page sends.
NetStart == ProxyInit /\ WidgetInit /\ CONFIG.WINPROB_ENABLED /\ CONFIG.LIVE_WINPROB_ENABLED
            /\ parseRun = Unparsed /\ exchange = NoExchange /\ calls = NoCalls
            /\ alone = NoCalls /\ timing = NoTiming /\ NetInit /\ fwd = NoForward
            /\ shown = NoShown /\ scoring = NoScoring /\ timers = NoTimers

NetSpec == NetStart /\ [][NetNext]_vars

\* The /proxy route.
ForwardStart == ProxyInit /\ WidgetInit /\ CONFIG.WINPROB_ENABLED /\ CONFIG.LIVE_WINPROB_ENABLED
                /\ parseRun = Unparsed /\ exchange = NoExchange /\ calls = NoCalls
                /\ alone = NoCalls /\ timing = NoTiming /\ net = NoNet /\ ForwardInit
                /\ shown = NoShown /\ scoring = NoScoring /\ timers = NoTimers

ForwardSpec == ForwardStart /\ [][ForwardNext]_vars

\* The winprob badge for one payload.
ShownStart == ProxyInit /\ WidgetInit /\ CONFIG.WINPROB_ENABLED /\ CONFIG.LIVE_WINPROB_ENABLED
              /\ parseRun = Unparsed /\ exchange = NoExchange /\ calls = NoCalls
              /\ alone = NoCalls /\ timing = NoTiming /\ net = NoNet /\ fwd = NoForward
              /\ ShownInit /\ scoring = NoScoring /\ timers = NoTimers

ShownSpec == ShownStart /\ [][RenderWinProbability]_vars

\* The scoring of one player.
ScoringStart == ProxyInit /\ WidgetInit /\ CONFIG.WINPROB_ENABLED /\ CONFIG.LIVE_WINPROB_ENABLED
                /\ parseRun = Unparsed /\ exchange = NoExchange /\ calls = NoCalls
                /\ alone = NoCalls /\ timing = NoTiming /\ net = NoNet /\ fwd = NoForward
                /\ shown = NoShown /\ ScoringInit /\ timers = NoTimers

ScoringSpec == ScoringStart /\ [][ScoringNext]_vars

\* The interval timers under any sequence of starts and stops.
TimersStart == ProxyInit /\ WidgetInit /\ CONFIG.WINPROB_ENABLED /\ CONFIG.LIVE_WINPROB_ENABLED
               /\ parseRun = Unparsed /\ exchange = NoExchange /\ calls = NoCalls
               /\ alone = NoCalls /\ timing = NoTiming /\ net = NoNet /\ fwd = NoForward
               /\ shown = NoShown /\ scoring = NoScoring /\ TimersInit

TimersSpec == TimersStart /\ [][TimersNext]_vars

\* Two spawnProcess calls at once.
PairStart == ProxyInit /\ WidgetInit /\ CONFIG.WINPROB_ENABLED /\ CONFIG.LIVE_WINPROB_ENABLED
             /\ parseRun = Unparsed /\ exchange = NoExchange /\ PairInit /\ AuxIdle

PairSpec == PairStart /\ [][PairNext]_vars

(***************************************************************************)
(* Properties of the process orchestrator.  A step of the handler past an  *)
(* await is the step that changes phase; the value the promise resolved    *)
(* with is read off the child in the state before it.                      *)
(***************************************************************************)
\* C1: a child whose timer fired makes runWinProbability throw the timeout
\* error (the handler answers 504) and resolveActiveMatchId return its timeout
\* object, whatever stdout holds (a valid marker line included) and whatever
\* the exit code is.
C1_TimeoutTakesPrecedence ==
    [][(child.promise = "resolved" /\ child.timedOut) =>
         /\ (phase = "winprob" /\ phase' = "done") =>
               response' = ErrorResponse(504, "false", "Timeout win probability", 0,
                               DetailOrUndefined(CapturedOutput(child.stderr, child.stdout)))
         /\ (phase = "resolve" /\ phase' # "resolve") =>
               /\ resolvedMatch' = [kind |-> "failure", ok |-> FALSE, match_id |-> "",
                                    error |-> "Timeout resolve match", exit |-> 0]
               /\ resolveActiveMatchId(Resolved(child)).detail =
                      CapturedOutput(child.stderr, child.stdout)]_vars

\* C1 happens: the handler answered 504 for a timed-out child whose stdout
\* ends with a valid, successful marker line.
C1_Witness ==
    /\ phase = "done"
    /\ child.timedOut
    /\ response.status = 504
    /\ child.stdout # <<>>
    /\ child.stdout[Len(child.stdout)] = MarkerLine(WINPROB_MARKER, "{ok,m1}")

\* C3: without a timeout, an extracted payload whose ok is false makes the
\* handler answer 400 with the payload's error text (the default text when it
\* has none) and the payload as detail; any other extracted payload is
\* returned (200); and 400 is answered past the await in no other case.
C3_PayloadFailureIs400 ==
    [][(phase = "winprob" /\ phase' = "done" /\ child.promise = "resolved") =>
         LET payload == parseMarkedPayload(child.stdout, WINPROB_MARKER)
         IN  /\ (~child.timedOut /\ payload # Null /\ payload.ok = FALSE) =>
                   /\ response'.status = 400
                   /\ response'.ok = "false"
                   /\ response'.error = IF payload.error # "" THEN payload.error
                                        ELSE "Calcul win probability en erreur."
                   /\ response'.detail = PayloadDetail(payload)
             /\ (~child.timedOut /\ payload # Null /\ payload.ok # FALSE) =>
                   /\ response'.status = 200
                   /\ response'.payload = payload
             /\ response'.status = 400 =>
                   ~child.timedOut /\ payload # Null /\ payload.ok = FALSE]_vars

\* C3 happens: a 400 carrying the payload's error text, for a child that
\* exited with a non-zero code.
C3_Witness ==
    /\ phase = "done"
    /\ response.status = 400
    /\ response.error = "err"
    /\ response.detail = PayloadDetail(FailPayload("err"))
    /\ child.code = 1

\* C4: without a timeout and without an extracted payload, a non-zero exit
\* code makes runWinProbability throw the script-failed error (502) and
\* resolveActiveMatchId return its script-failed object, each with the exit
\* code and with stderr, or stdout when stderr is empty, as detail.
C4_InvocationFailure ==
    [][(child.promise = "resolved" /\ ~child.timedOut /\ child.code # 0) =>
         /\ (phase = "winprob" /\ phase' = "done"
               /\ parseMarkedPayload(child.stdout, WINPROB_MARKER) = Null) =>
               response' = ErrorResponse(502, "false",
                               "Le script win probability a echoue (exit)", child.code,
                               DetailOrUndefined(CapturedOutput(child.stderr, child.stdout)))
         /\ (phase = "resolve" /\ phase' # "resolve"
               /\ parseMarkedPayload(child.stdout, MATCH_RESOLVE_MARKER) = Null) =>
               /\ resolvedMatch' = [kind |-> "failure", ok |-> FALSE, match_id |-> "",
                                    error |-> "Resolve match script failed (exit)",
                                    exit |-> child.code]
               /\ resolveActiveMatchId(Resolved(child)).detail =
                      CapturedOutput(child.stderr, child.stdout)]_vars

\* C4 happens: a 502 with exit code 2 and the captured stderr.
C4_Witness ==
    /\ phase = "done"
    /\ response.status = 502
    /\ response.exit = 2
    /\ response.detail = TextDetail("stderr", <<ErrLine>>)
    /\ child.stdout # <<>>

\* C5: without a timeout and without an extracted payload, exit code 0 makes
\* runWinProbability throw the payload-missing error (502, stdout as detail)
\* and resolveActiveMatchId return its payload-missing object: never a success.
C5_PayloadMissing ==
    [][(child.promise = "resolved" /\ ~child.timedOut /\ child.code = 0) =>
         /\ (phase = "winprob" /\ phase' = "done"
               /\ parseMarkedPayload(child.stdout, WINPROB_MARKER) = Null) =>
               response' = ErrorResponse(502, "false",
                               "Reponse JSON win probability introuvable dans stdout.", 0,
                               DetailOrUndefined(TextDetail("stdout", child.stdout)))
         /\ (phase = "resolve" /\ phase' # "resolve"
               /\ parseMarkedPayload(child.stdout, MATCH_RESOLVE_MARKER) = Null) =>
               resolvedMatch' = [kind |-> "failure", ok |-> FALSE, match_id |-> "",
                                 error |-> "Resolve match payload introuvable.",
                                 exit |-> 0]]_vars

\* C5 happens: a 502 for a child that wrote lines, none a payload, and
\* exited with code 0.
C5_Witness ==
    /\ phase = "done"
    /\ response.status = 502
    /\ response.error = "Reponse JSON win probability introuvable dans stdout."
    /\ child.stdout = <<LogLine, MarkerLine(WINPROB_MARKER, "{bad")>>
    /\ child.stderr # <<>>

\* C6: the timer's callback kills the child; the killed child's close resolves
\* the promise with timedOut = true; and every pending promise of spawnProcess
\* is settled eventually.
C6_EveryInvocationSettles ==
    /\ [](child.timer = "fired" => child.timedOut /\ child.st \in {"killed", "closed"})
    /\ [][(child.st = "killed" /\ child'.st = "closed") =>
             child'.promise = "resolved" /\ child'.timedOut]_vars
    /\ (child.promise = "pending") ~> (child.promise \in {"resolved", "rejected"})

\* C6 happens: a child was killed by the timer and its promise resolved.
C6_Witness ==
    /\ child.timer = "cleared"
    /\ child.st = "closed"
    /\ child.timedOut
    /\ child.promise = "resolved"

(***************************************************************************)
(* Property of parseMarkedPayload.                                         *)
(***************************************************************************)
\* C2: parseMarkedPayload returns what the last line of stdout that starts
\* with the marker holds (null when that line holds no JSON, or when no line
\* starts with the marker), whatever lines surround the marker lines: an
\* earlier marker line is never the result when a later one exists.
C2_LastMarkerLineWins ==
    parseRun.done =>
        LET at == {i \in 1..Len(parseRun.stdout) : parseRun.stdout[i].head = parseRun.marker}
        IN  IF at = {} THEN parseRun.result = Null
            ELSE LET last == CHOOSE i \in at : \A j \in at : j <= i
                 IN  parseRun.result = JSONparse(parseRun.stdout[last].json).value

\* C2 happens: two marker lines with different payloads, free text before,
\* between and after them, and the later payload returned.
C2_Witness ==
    /\ parseRun.done
    /\ parseRun.stdout = <<LogLine, MarkerLine(parseRun.marker, "{ok,m1}"), LogLine,
                           MarkerLine(parseRun.marker, "{ok,m2}"), LogLine>>
    /\ parseRun.result = OkPayload("m2")

(***************************************************************************)
(* Properties of the widget's live tracker.  A live request settles in the *)
(* step that empties liveReqs; what it settles with is read off the        *)
(* request in the state before.                                            *)
(***************************************************************************)
\* C7: a trigger of refreshLiveWinProbability that finds a live refresh in
\* flight issues no request, and none is issued for it when that refresh
\* settles: at most one live request is in flight at any time.
C7_OneLiveRequestInFlight ==
    /\ [](Len(liveReqs) <= 1)
    /\ [](isLiveWinprobRefreshing <=> liveReqs # <<>>)
    /\ [][Len(liveReqs') > Len(liveReqs) => ~isLiveWinprobRefreshing /\ liveReqs = <<>>]_vars
    /\ [][Len(liveReqs') < Len(liveReqs) => liveReqs' = <<>>]_vars

\* C7 happens: a trigger was skipped while the one live request is in flight.
C7_Witness ==
    /\ liveSkipped
    /\ isLiveWinprobRefreshing
    /\ Len(liveReqs) = 1

\* C8: a live request, or the win-probability request of a full refresh, that
\* finds no active match puts the live badge in the no-active-match state and
\* sets RUNTIME.lastLiveWinprobPct to NaN; and the sample that next makes it
\* finite is displayed with no delta.
C8_NoActiveMatchClearsSample ==
    /\ [][(liveReqs # <<>> /\ liveReqs' = <<>>
             /\ FetchOutcome(liveReqs[1].answer).payload.no_active_match) =>
            /\ DOM'.liveMeta = "Aucune partie en cours"
            /\ RUNTIME'.lastLiveWinprobPct = NaN
            /\ ~DOM'.hasDelta]_vars
    /\ [][(load.st = "settled" /\ load'.st = "idle" /\ shouldShowWinprob(CONFIG)
             /\ ~load.threw /\ load.payload.no_active_match) =>
            /\ DOM'.liveMeta = "Aucune partie en cours"
            /\ DOM'.winprobMeta = "Aucune partie en cours"
            /\ RUNTIME'.lastLiveWinprobPct = NaN
            /\ ~DOM'.hasDelta]_vars
    /\ [][(~IsFinite(RUNTIME.lastLiveWinprobPct) /\ IsFinite(RUNTIME'.lastLiveWinprobPct)) =>
            ~DOM'.hasDelta /\ DOM'.liveMeta = ""]_vars

\* C8 happens: a live request found no active match after the full refresh
\* had displayed a probability, and the live badge holds no sample.
C8_Witness ==
    /\ DOM.liveMeta = "Aucune partie en cours"
    /\ DOM.winprobMeta = ""
    /\ ~IsFinite(RUNTIME.lastLiveWinprobPct)
    /\ ~DOM.hasDelta
    /\ RUNTIME.resolvedMatchId # ""

\* C9 (as the specification states it): a delta is displayed only between two
\* samples of the same match; when the retained sample's match changes, no
\* delta is displayed.
C9_NoDeltaAcrossMatches ==
    [][sampleMatch' # sampleMatch => ~DOM'.hasDelta]_vars

\* C10: a sample rendered while a previous one is retained is classified, with
\* delta the new percentage less the previous one, up iff delta > 0.05, down
\* iff delta < -0.05 and flat otherwise; a sample rendered while none is
\* retained gets no indicator.
C10_DeltaClassification ==
    [][(liveReqs # <<>> /\ liveReqs' = <<>> /\ IsFinite(RUNTIME'.lastLiveWinprobPct)) =>
         IF IsFinite(RUNTIME.lastLiveWinprobPct)
         THEN LET delta == RUNTIME'.lastLiveWinprobPct - RUNTIME.lastLiveWinprobPct
              IN  /\ DOM'.hasDelta
                  /\ DOM'.deltaPct = delta
                  /\ (DOM'.deltaDir = "up") <=> (delta > DeltaBand)
                  /\ (DOM'.deltaDir = "down") <=> (delta < -DeltaBand)
                  /\ (DOM'.deltaDir = "flat") <=> (delta >= -DeltaBand /\ delta <= DeltaBand)
         ELSE ~DOM'.hasDelta /\ DOM'.deltaDir = ""]_vars

\* C10 happens: a delta of exactly 0.05 point is displayed as flat.
C10_Witness ==
    /\ DOM.hasDelta
    /\ DOM.deltaPct = DeltaBand
    /\ DOM.deltaDir = "flat"
    /\ RUNTIME.lastLiveWinprobPct = 5005

\* C11: after a live request that yields a finite probability, the one value
\* RUNTIME.lastLiveWinprobPct retains is that sample's percentage, whatever
\* the indicator displayed (up, down, flat or none).
C11_SampleBecomesPrevious ==
    [][(liveReqs # <<>> /\ liveReqs' = <<>>
          /\ liveReqs[1].answer.http = "200" /\ liveReqs[1].answer.ok
          /\ IsFinite(liveReqs[1].answer.prob)) =>
         LET p == liveReqs[1].answer.prob
             pct == IF p > 10000 /\ p <= 1000000 THEN p \div 100 ELSE p
         IN  RUNTIME'.lastLiveWinprobPct = pct]_vars

\* C11 happens: a sample displayed as flat against 50.06 was stored (50.05).
C11_Witness ==
    /\ DOM.hasDelta
    /\ DOM.deltaDir = "flat"
    /\ DOM.deltaPct = -1
    /\ RUNTIME.lastLiveWinprobPct = 5005

\* C12: a probability request that fails with an HTTP error text or an
\* ok = false payload holding a no-active-match phrase makes
\* fetchWinProbability and fetchLiveWinProbability return a payload with
\* no_active_match = true; the badges then show "Aucune partie en cours" and
\* the message of the winprob section is left as it was.
C12_NoActiveMatchIsNoError ==
    /\ [](load.st = "settled" /\ FailsWithPhrase(load.answer) =>
             ~load.threw /\ load.payload.no_active_match)
    /\ [][(load.st = "settled" /\ load'.st = "idle" /\ FailsWithPhrase(load.answer)) =>
             /\ DOM'.winprobMeta = "Aucune partie en cours"
             /\ DOM'.liveMeta = "Aucune partie en cours"
             /\ DOM'.winprobError = DOM.winprobError]_vars
    /\ [][(liveReqs # <<>> /\ liveReqs' = <<>> /\ FailsWithPhrase(liveReqs[1].answer)) =>
             /\ DOM'.liveMeta = "Aucune partie en cours"
             /\ DOM'.winprobError = DOM.winprobError]_vars

\* C12 happens: the first full refresh ended on a no-active-match failure:
\* both badges show it and the section has no error message.
C12_Witness ==
    /\ inited = "yes"
    /\ ~isRefreshing
    /\ DOM.winprobMeta = "Aucune partie en cours"
    /\ DOM.liveMeta = "Aucune partie en cours"
    /\ DOM.winprobError = ""
    /\ RUNTIME.resolvedMatchId = ""

(***************************************************************************)
(* Properties of the boundary between the proxy and the widget.            *)
(***************************************************************************)
\* C13 (as the specification states it): a process-level failure of the proxy
\* (504 timeout, 502 failed script, 502 missing payload) makes the fetch
\* function throw, whatever captured output the response carries as detail;
\* it is never taken for the no-active-match outcome.
C13_ProcessFailuresRaise ==
    (exchange.stage = "fetched" /\ exchange.response.status \in {502, 504}) =>
        exchange.outcome.threw /\ ~exchange.outcome.payload.no_active_match

(***************************************************************************)
(* Properties of the handler's match resolution.                           *)
(***************************************************************************)
\* C14: for a GET /win-probability request without match_id, the resolution
\* (resolveActiveMatchId) has completed before the computation
\* (runWinProbability) starts: the computation is spawned only from the
\* request's first step when the resolver returned without spawning, or once
\* the resolver's child has closed and its promise resolved; and a non-empty
\* match_id of the resolver is the id passed to the computation as --match-id.
C14_ResolveThenCompute ==
    /\ [](child.args.script = "win_probability" /\ req.match_id = ""
            => resolvedMatch.kind # "none")
    /\ [][(req'.match_id = "" /\ child'.args.script = "win_probability"
             /\ child.args.script # "win_probability") =>
            \/ phase = "idle" /\ resolvedMatch'.kind = "failure"
            \/ /\ phase = "resolve"
               /\ child.args = ResolverArgs
               /\ child.st = "closed"
               /\ child.promise = "resolved"
               /\ LET rm == resolveActiveMatchId(Resolved(child))
                  IN  rm.match_id # "" => child'.args.matchId = rm.match_id]_vars

C14_Witness ==
    /\ phase = "winprob"
    /\ req.match_id = ""
    /\ resolvedMatch.match_id = "m1"
    /\ child.args = WinProbArgs("m1")

\* C15 (as the specification states it): every response to a GET
\* /win-probability request with a nickname that omitted match_id, success or
\* failure, carries the report of the resolution that was performed
\* (auto_match_resolve).
C15_ResolutionReported ==
    (phase = "done" /\ req.method = "GET" /\ req.nickname # "" /\ req.match_id = ""
       /\ resolvedMatch.kind # "none")
        => response.auto_match_resolve.present

(***************************************************************************)
(* Properties of the spawns of one request.                                *)
(***************************************************************************)
\* The requests the spawn properties are about: GET, a nickname, answered, and
\* the script directory found by runWinProbability (no 500).
AnsweredComputation ==
    phase = "done" /\ req.method = "GET" /\ req.nickname # "" /\ response.status # 500

\* C16 (as the specification states it): every GET /win-probability request
\* with a nickname and an existing script directory spawns the computation
\* exactly once and the resolver at most once.
C16_ComputationSpawnedOnce ==
    AnsweredComputation => spawns.win_probability = 1 /\ spawns.resolve_match <= 1

\* C16 (amended): such a request spawns the resolver at most once and the
\* computation at most once -- exactly once unless the resolver's own spawn
\* failed, in which case the request is answered 502 without computing; nothing
\* is retried, and a 200 response carries the payload extracted from the stdout
\* of the child this request spawned.
C16_NoRetryNoCache ==
    AnsweredComputation =>
        /\ spawns.resolve_match <= 1
        /\ spawns.win_probability <= 1
        /\ spawns.win_probability = 0 =>
              /\ spawns.resolve_match = 1
              /\ child.args = ResolverArgs
              /\ child.promise = "rejected"
              /\ response.status = 502
        /\ spawns.win_probability = 1 => child.args.script = "win_probability"
        /\ response.status = 200 =>
              response.payload = parseMarkedPayload(child.stdout, WINPROB_MARKER)

C16_Witness ==
    /\ AnsweredComputation
    /\ spawns = [resolve_match |-> 1, win_probability |-> 1]
    /\ resolvedMatch.kind = "failure"
    /\ response.status = 502

(***************************************************************************)
(* Properties of two spawnProcess calls in progress at once.               *)
(***************************************************************************)
\* What a request makes of its call once the promise settled.
ResultOf(c) ==
    CASE c.promise = "resolved" -> runWinProbability(Resolved(c))
      [] c.promise = "rejected" -> Thrown(0, "spawn error", 0, NoDetail)
      [] OTHER -> Thrown(0, "pending", 0, NoDetail)

C18_AbortKillsInvocation ==
    [][(aborted /\ child.st = "running") => ~(child'.timedOut /\ ~child.timedOut)]_vars

(***************************************************************************)
(* Properties of the detail of a timeout.                                  *)
(***************************************************************************)
\* The lines of a captured stream.
LinesOf(text) == {text[i] : i \in 1..Len(text)}

\* The handler answered a timeout of the computation.
TimeoutAnswered == phase = "done" /\ response.status = 504

\* The resolver's timeout is about to be returned.
ResolverTimedOut == phase = "resolve" /\ child.promise = "resolved" /\ child.timedOut

\* C19 (as the specification states it): a TimeoutFailure carries the stdout
\* and the stderr retained up to the forced termination, both attached to the
\* failure.
C19_TimeoutDetailBothStreams ==
    TimeoutAnswered =>
        LinesOf(child.stdout) \cup LinesOf(child.stderr) \subseteq LinesOf(response.detail.text)

\* C19 (amended): a TimeoutFailure carries one captured stream as detail: the
\* stderr retained up to the forced termination when it is not empty, otherwise
\* the retained stdout (no detail when both are empty); so does the resolver's
\* timeout object.
C19_TimeoutDetailOneStream ==
    /\ TimeoutAnswered =>
          response.detail =
              IF child.stderr # <<>> THEN TextDetail("stderr", child.stderr)
              ELSE IF child.stdout # <<>> THEN TextDetail("stdout", child.stdout)
              ELSE NoDetail
    /\ ResolverTimedOut =>
          resolveActiveMatchId(Resolved(child)).detail =
              IF child.stderr # <<>> THEN TextDetail("stderr", child.stderr)
              ELSE TextDetail("stdout", child.stdout)

C19_Witness ==
    /\ TimeoutAnswered
    /\ child.stdout # <<>>
    /\ child.stderr # <<>>
    /\ response.detail = TextDetail("stderr", child.stderr)

(***************************************************************************)
(* Properties of the statuses of /win-probability.                         *)
(***************************************************************************)
\* The status that the failure kind of a settled computation calls for: 502
\* spawn error, 504 timeout, 400 failure reported by the payload, 502 non-zero
\* exit or exit zero without a payload; 0 when the computation did not fail.
FailureStatus(c) ==
    IF c.promise = "rejected" THEN 502
    ELSE IF c.timedOut THEN 504
    ELSE LET payload == parseMarkedPayload(c.stdout, WINPROB_MARKER)
         IN  IF payload = Null THEN 502
             ELSE IF ~payload.ok THEN 400
             ELSE 0

IsFailureResponse(resp, status) ==
    resp.status = status /\ resp.ok = "false" /\ resp.error # ""

\* Past `await runWinProbability`: the failure kind decides the response.
ComputationFailureAnswered ==
    [][(phase = "winprob" /\ phase' = "done") =>
          IF FailureStatus(child) # 0
          THEN IsFailureResponse(response', FailureStatus(child))
          ELSE response'.status = 200 /\ response'.ok = "true"]_vars

\* A request that ends before the computation is awaited: spawn error of the
\* resolver (502) or missing script directory (500), a missing nickname (400) or
\* a wrong method (405).
EarlyFailureAnswered ==
    [][(phase \in {"idle", "resolve"} /\ phase' = "done") =>
          \/ phase = "resolve" /\ child.promise = "rejected"
                /\ IsFailureResponse(response', 502)
          \/ IsFailureResponse(response', 500) /\ response'.error = "Dossier introuvable"
          \/ phase = "idle" /\ req'.nickname = "" /\ req'.method = "GET"
                /\ IsFailureResponse(response', 400)
          \/ phase = "idle" /\ req'.method # "GET" /\ response'.status = 405]_vars

\* respondJson runs once per request: the response is written in the step that
\* ends the request and is not written again.
RespondedOnce ==
    /\ [](phase = "done" <=> response # NoResponse)
    /\ [][response # NoResponse => (response' = response \/ response' = NoResponse)]_vars

\* C20: no failure of a /win-probability request is swallowed: every failure
\* yields exactly one response with ok = false and the status of its kind (504
\* timeout, 400 failure reported by the payload, 502 non-zero exit or missing
\* payload or spawn error, 500 missing script directory), and status 200 is
\* answered only for a computation that did not fail.
C20_FailuresAnswered ==
    /\ ComputationFailureAnswered
    /\ EarlyFailureAnswered
    /\ RespondedOnce
    /\ [](response.status = 200 =>
            /\ response.ok = "true"
            /\ child.args.script = "win_probability"
            /\ FailureStatus(child) = 0)

C20_Witness ==
    /\ phase = "done"
    /\ child.args.script = "win_probability"
    /\ child.promise = "rejected"
    /\ IsFailureResponse(response, 502)

(***************************************************************************)
(* Properties of the time budgets.                                         *)
(***************************************************************************)
\* C21 (as the specification states it): with the default configuration the
\* budgets of the proxy's invocations elapse before the widget's fetch deadline
\* for the request, so the proxy always answers before the client gives up: the
\* fetch is never aborted by its own timer.
C21_ProxyAnswersBeforeDeadline ==
    InvocationRunning => timing.client # "aborted"

(***************************************************************************)
(* Properties of the requests the widget's page sends.                     *)
(***************************************************************************)
ProxyRoutes == {"proxy", "resolve-live-match", "win-probability", "live-win-probability"}
SecretHeaders == {"Authorization", "X-API-Key", "_leetify_key"}

TargetsProxy(r) ==
    /\ r.root = ensureTrailingSlash(net.PROXY_BASE_URL)
    /\ r.route \in ProxyRoutes
    /\ r.headers \cap SecretHeaders = {}

Forwarded == fwd.upstream # NoUpstream

\* The headers of authentication the selected service calls for.
AuthOf(service, key) ==
    IF service = "leetify" THEN {Bearer(key), [name |-> "_leetify_key", value |-> key]}
    ELSE {Bearer(key)}

\* A well-formed request for a service whose key is not configured.
KeyMissing ==
    /\ fwd.request.method = "GET"
    /\ fwd.request.service \in {"faceit", "leetify"}
    /\ StartsWithSlash(fwd.request.path)
    /\ ServiceKey(fwd.keys, fwd.request.service) = ""

C24_ShownWithinBounds ==
    (shown.st = "rendered" /\ IsFinite(shown.value)) =>
        (50 <= shown.value /\ shown.value <= 950)

(***************************************************************************)
(* Properties of the statistical model.                                    *)
(***************************************************************************)
NoMapHistory == scoring.up.map_matches = 0

\* A player with the same numbers and a real history on the map whose
\* winrate equals the global winrate.
RealTwin(up) == [up EXCEPT !.map_matches = 100, !.map_wins = up.winrate_global]

\* C25: for every player with no recorded match on the active map, winrate_map
\* equals the player's global winrate and map_stat_is_fallback is true; the
\* flag does not change the numeric computation: the score is that of a player
\* whose real map winrate equals the global winrate.
C25_FallbackToGlobalWinrate ==
    /\ (scoring.st \in {"aggregated", "scored"} /\ NoMapHistory) =>
          /\ scoring.record.winrate_map = scoring.up.winrate_global
          /\ scoring.record.map_stat_is_fallback
    /\ (scoring.st = "scored" /\ NoMapHistory) =>
          /\ ~BuildRecord(RealTwin(scoring.up)).map_stat_is_fallback
          /\ scoring.score = CompositeScore(Weights, BuildRecord(RealTwin(scoring.up)))

C25_Witness ==
    /\ scoring.st = "scored"
    /\ NoMapHistory
    /\ scoring.up.winrate_global = 55
    /\ scoring.record.winrate_map = 55
    /\ scoring.record.map_stat_is_fallback

RECURSIVE SumOfWeights(_, _)
SumOfWeights(ms, weights) ==
    IF ms = {} THEN 0
    ELSE LET m == CHOOSE x \in ms : TRUE
         IN  weights[m] + SumOfWeights(ms \ {m}, weights)

WeightsAsDocumented ==
    /\ DOMAIN scoring.weights = Metrics
    /\ scoring.weights.elo = 30
    /\ scoring.weights.kd_ratio = 20
    /\ scoring.weights.winrate_global = 20
    /\ scoring.weights.winrate_map = 20
    /\ scoring.weights.headshot_pct = 5
    /\ scoring.weights.avg_kills_per_match = 5
    /\ SumOfWeights(Metrics, scoring.weights) = 100

WeightsKept == scoring'.weights = scoring.weights

\* C26: the composite scorer's weights over the six metrics (elo 30%, kd_ratio
\* 20%, winrate_global 20%, winrate_map 20%, headshot_pct 5%,
\* avg_kills_per_match 5%) sum to exactly 100% and no step changes them.
C26_WeightsSumToOne == [](WeightsAsDocumented) /\ [][WeightsKept]_vars

C26_Witness ==
    /\ scoring.st = "scored"
    /\ SumOfWeights(Metrics, scoring.weights) = 100
    /\ scoring.up.elo = 50000
    /\ scoring.up.map_matches = 2
    /\ scoring.score >= 30 * 1000

(***************************************************************************)
(* Property of a marker line that holds no JSON.                           *)
(***************************************************************************)
\* The lines of stdout that start with the marker, by index.
MarkerLinesAt(stdout, marker) == {i \in 1..Len(stdout) : stdout[i].head = marker}

\* The last line that starts with the marker holds no JSON.
LastMarkerUnparsable(stdout, marker) ==
    LET at == MarkerLinesAt(stdout, marker)
    IN  /\ at # {}
        /\ JSONparse(stdout[CHOOSE i \in at : \A j \in at : j <= i].json).threw

\* The same output had the child emitted no marker line.
WithoutMarkers(stdout, marker) == SelectSeq(stdout, LAMBDA l : l.head # marker)

\* What of a response says which outcome it reports.
OutcomeOf(r) == <<r.status, r.ok, r.error, r.exit>>

\* C27: a child closed without a timeout whose last marker line of stdout is
\* not JSON: parseMarkedPayload returns null whatever an earlier marker line
\* holds, and the answer is the one of a child that emitted no marker line,
\* decided by the exit code: the invocation failure (502, exit quoted) when it
\* is not 0, the missing payload (502) when it is 0.
C27_UnparsableLastMarker ==
    [][(/\ phase = "winprob" /\ phase' = "done"
        /\ child.promise = "resolved" /\ ~child.timedOut
        /\ LastMarkerUnparsable(child.stdout, WINPROB_MARKER)) =>
         /\ parseMarkedPayload(child.stdout, WINPROB_MARKER) = Null
         /\ OutcomeOf(response') =
               IF child.code # 0
               THEN <<502, "false", "Le script win probability a echoue (exit)", child.code>>
               ELSE <<502, "false", "Reponse JSON win probability introuvable dans stdout.", 0>>
         /\ OutcomeOf(response') =
               OutcomeOf(CatchResponse(runWinProbability(
                   [Resolved(child) EXCEPT
                       !.stdout = WithoutMarkers(child.stdout, WINPROB_MARKER)])))]_vars

\* C27 happens: a payload line followed by a marker line that is not JSON, exit
\* code 0, and the missing-payload answer.
C27_Witness ==
    /\ phase = "done"
    /\ child.promise = "resolved"
    /\ ~child.timedOut
    /\ child.code = 0
    /\ child.stdout = <<MarkerLine(WINPROB_MARKER, "{ok,m1}"), MarkerLine(WINPROB_MARKER, "{bad")>>
    /\ response.status = 502
    /\ response.error = "Reponse JSON win probability introuvable dans stdout."

(***************************************************************************)
(* Property of the settling of spawnProcess.                               *)
(***************************************************************************)
\* What a settled call of spawnProcess has made: the state of its promise and
\* of its timer, and the value it resolved with.
Settlement(c) == <<c.promise, c.timer, c.code, c.timedOut, c.stdout, c.stderr>>

SettledOnce ==
    /\ child.settled <=> child.promise \in {"resolved", "rejected"}
    /\ child.settled => child.timer = "cleared"

\* A step of one invocation: the first 'close' or 'error' handled, or an event
\* after it.
SettlingStep ==
    /\ (~child.settled /\ child'.settled) =>
          /\ child.promise = "pending"
          /\ child'.promise \in {"resolved", "rejected"}
          /\ child'.timer = "cleared"
    /\ (child.settled /\ child'.settled) => Settlement(child') = Settlement(child)
    /\ (child.promise = "pending" /\ child'.promise = "resolved") =>
          (child'.timedOut <=> child.timer = "fired")

\* C28: spawnProcess settles its promise once per invocation: handling the
\* first 'error' or 'close' settles it and clears the timer, an event handled
\* later changes nothing, and a promise that resolves carries timedOut = true
\* exactly when the timer fired before that 'close' was handled.
C28_SettlesExactlyOnce == [](SettledOnce) /\ [][SettlingStep]_vars

\* C28 happens: the 'close' of a child whose 'error' rejected the promise was
\* handled, and the promise is still the rejected one.
C28_Witness ==
    /\ child.st = "closed"
    /\ child.settled
    /\ child.promise = "rejected"
    /\ child.timer = "cleared"
    /\ ~child.timedOut

(***************************************************************************)
(* Property of loadAllData's isRefreshing flag.                            *)
(***************************************************************************)
\* How far a call of loadAllData has come.
LoadRank(st) ==
    CASE st = "bootstrap" -> 1
      [] st = "fetching"  -> 2
      [] st = "settled"   -> 3
      [] st = "caught"    -> 3
      [] st = "idle"      -> 4

RefreshFlagHeld == isRefreshing <=> load.st # "idle"

\* A call made while isRefreshing is true starts nothing: the call in progress
\* only moves on.
NoReentry == (isRefreshing /\ load' # load) => LoadRank(load'.st) > LoadRank(load.st)

\* The call that finishes resets the flag, whatever its fetches gave.
FinishResets == (load.st # "idle" /\ load'.st = "idle") => isRefreshing /\ ~isRefreshing'

\* C29: loadAllData is non-reentrant: a call made while isRefreshing is true
\* returns without issuing a request; a call that set isRefreshing resets it
\* when it finishes, whether its fetch was fulfilled or rejected or
\* bootstrapWidgetIdentity failed; so isRefreshing never stays true forever.
C29_LoadAllDataNonReentrant ==
    /\ [](RefreshFlagHeld)
    /\ [][NoReentry]_vars
    /\ [][FinishResets]_vars
    /\ (isRefreshing ~> ~isRefreshing)

\* C29 happens: the call of initWidget finished and reset the flag, a refresh
\* tick started the next call, and the fetch of that call was rejected.
C29_Witness ==
    /\ inited = "yes"
    /\ isRefreshing
    /\ load.st = "settled"
    /\ load.threw
    /\ RUNTIME.bootstrapAt
    /\ ~RUNTIME.resolvedSteamId64
    /\ DOM.winprobMeta = "Aucune partie en cours"
    /\ DOM.liveMeta = "Live indisponible"

(***************************************************************************)
(* Property of the live refresh's isLiveWinprobRefreshing flag.            *)
(***************************************************************************)
\* The request of the live refresh that finishes in this step.
LiveFinishes == liveReqs # <<>> /\ liveReqs' = <<>>

\* The finishing step resets the flag, whatever the request was answered with.
LiveFinishResets ==
    LiveFinishes =>
        /\ liveReqs[1].answer # NoAnswer
        /\ isLiveWinprobRefreshing
        /\ ~isLiveWinprobRefreshing'

\* C30: every live refresh that starts finishes and resets
\* isLiveWinprobRefreshing, whether its request succeeds, reports no active
\* match, fails, or is aborted by the timer of fetchJson; a skipped live tick
\* is followed by a state where ticks are taken again.
C30_LiveRefreshEnds ==
    /\ (isLiveWinprobRefreshing ~> ~isLiveWinprobRefreshing)
    /\ (liveReqs # <<>> ~> liveReqs = <<>>)
    /\ (liveSkipped ~> ~liveSkipped)
    /\ [][LiveFinishResets]_vars

\* C30 happens: after a load that showed a probability, a live refresh failed
\* or was aborted and has finished: the error is shown and the flag is reset.
C30_Witness ==
    /\ inited = "yes"
    /\ liveWinprobTimer
    /\ ~isLiveWinprobRefreshing
    /\ liveReqs = <<>>
    /\ DOM.winprobMeta = ""
    /\ DOM.winprobError = "error"
    /\ DOM.liveMeta = "Live indisponible"

(***************************************************************************)
(* Property of the widget's interval timers.                               *)
(***************************************************************************)
ActiveOf(kind) == {a \in timers.active : a.kind = kind}

PositiveInterval(interval) == IsFinite(interval) /\ interval > 0

\* C31: after any sequence of startAutoRefresh / stopAutoRefresh and
\* startLiveWinprobRefresh / stopLiveWinprobRefresh calls at most one interval
\* of each kind is active, and it is the one the handle names; a start with an
\* interval that is not positive or not finite (for the live timer also with
\* WINPROB_ENABLED or LIVE_WINPROB_ENABLED false) leaves none active, and a
\* stop leaves none active.
C31_AtMostOneTimerOfEachKind ==
    /\ Cardinality(ActiveOf("refresh")) <= 1
    /\ Cardinality(ActiveOf("live")) <= 1
    /\ ActiveOf("refresh") =
          IF timers.refreshTimer = 0 THEN {}
          ELSE {[id |-> timers.refreshTimer, kind |-> "refresh"]}
    /\ ActiveOf("live") =
          IF timers.liveWinprobTimer = 0 THEN {}
          ELSE {[id |-> timers.liveWinprobTimer, kind |-> "live"]}
    /\ timers.last = "stopAutoRefresh" => ActiveOf("refresh") = {}
    /\ timers.last = "stopLiveWinprobRefresh" => ActiveOf("live") = {}
    /\ (timers.last = "startAutoRefresh"
          /\ ~PositiveInterval(timers.CONFIG.REFRESH_INTERVAL_MS)) => ActiveOf("refresh") = {}
    /\ (timers.last = "startLiveWinprobRefresh"
          /\ (\/ ~PositiveInterval(timers.CONFIG.LIVE_WINPROB_INTERVAL_MS)
              \/ ~timers.CONFIG.WINPROB_ENABLED
              \/ ~timers.CONFIG.LIVE_WINPROB_ENABLED)) => ActiveOf("live") = {}

\* C31 happens: the third start in a row, and one interval of each kind.
C31_Witness ==
    /\ timers.last = "startAutoRefresh"
    /\ timers.nextId = 4
    /\ timers.refreshTimer = 3
    /\ Cardinality(ActiveOf("refresh")) = 1
    /\ Cardinality(ActiveOf("live")) = 1

(***************************************************************************)
(* Property of RUNTIME.resolvedMatchId.                                    *)
(***************************************************************************)
\* The match ids the proxy's answers handled in this step hold.
ReturnedMatchIds ==
    (IF load.st = "bootstrap" THEN {activeMatch} ELSE {})
    \cup (IF load.st = "fetching" /\ load'.st = "settled" THEN {load'.answer.match_id} ELSE {})
    \cup {liveReqs[i].answer.match_id : i \in 1..Len(liveReqs)}

ResolvedMatchIdKept ==
    RUNTIME.resolvedMatchId # "" =>
        /\ RUNTIME'.resolvedMatchId # ""
        /\ RUNTIME'.resolvedMatchId # RUNTIME.resolvedMatchId =>
              RUNTIME'.resolvedMatchId \in ReturnedMatchIds

RequestsCarryMatchId ==
    /\ (load.st # "fetching" /\ load'.st = "fetching" /\ RUNTIME.resolvedMatchId # "") =>
          load'.match_id = RUNTIME'.resolvedMatchId
    /\ (Len(liveReqs') > Len(liveReqs) /\ RUNTIME.resolvedMatchId # "") =>
          liveReqs'[Len(liveReqs')].match_id = RUNTIME.resolvedMatchId

\* C32: once RUNTIME.resolvedMatchId holds an id it is never reset to empty,
\* not by a no-active-match outcome and not by an error, and it changes only to
\* an id that an answer of the proxy holds; every win-probability and live
\* request sent from then on carries it as match_id.
C32_ResolvedMatchIdSticks == [][ResolvedMatchIdKept]_vars /\ [][RequestsCarryMatchId]_vars

\* C32 happens: the player's match is over, the live badge shows that no match
\* is in progress, and the next live request still carries the id of that match.
C32_Witness ==
    /\ activeMatch = ""
    /\ RUNTIME.resolvedMatchId = "m1"
    /\ DOM.liveMeta = "Aucune partie en cours"
    /\ Len(liveReqs) = 1
    /\ liveReqs[1].match_id = "m1"
    /\ liveReqs[1].answer = NoAnswer

(***************************************************************************)
(* Property of a failed live tick.                                         *)
(***************************************************************************)
\* The answer of the live request that finishes in this step.
FinishingAnswer == liveReqs[1].answer

\* The tick fails with another error, or its payload holds no finite number.
LiveTickFails(a) ==
    \/ (a.http # "200" \/ ~a.ok) /\ ~a.nam
    \/ a.http = "200" /\ a.ok /\ ~IsFinite(a.prob)

LiveTickSucceeds(a) == a.http = "200" /\ a.ok /\ IsFinite(a.prob)

FailedTickClears ==
    (LiveFinishes /\ LiveTickFails(FinishingAnswer)) =>
        /\ RUNTIME'.lastLiveWinprobPct = NaN
        /\ ~DOM'.hasDelta
        /\ DOM'.liveMeta = "Live indisponible"

NoDeltaAfterFailedTick ==
    (LiveFinishes /\ DOM.liveMeta = "Live indisponible" /\ LiveTickSucceeds(FinishingAnswer)) =>
        /\ ~DOM'.hasDelta
        /\ RUNTIME'.lastLiveWinprobPct = ToPct(FinishingAnswer.prob)

\* C33: a live tick that fails with an error other than no-active-match, or
\* whose payload holds no finite probability, clears the retained sample
\* (RUNTIME.lastLiveWinprobPct becomes NaN) and the delta indicator; the first
\* successful tick after it displays its sample without a delta.
C33_FailedTickClearsSample == [][FailedTickClears]_vars /\ [][NoDeltaAfterFailedTick]_vars

\* C33 happens: after a load that showed a probability a live tick failed (its
\* error is still shown), and the sample of the next tick is displayed without
\* a delta.
C33_Witness ==
    /\ inited = "yes"
    /\ DOM.winprobMeta = ""
    /\ DOM.winprobError = "error"
    /\ DOM.liveMeta = ""
    /\ ~DOM.hasDelta
    /\ RUNTIME.lastLiveWinprobPct = ToPct(5005)
    /\ liveReqs = <<>>

(***************************************************************************)
(* Property of a resolution that gives no match id.                        *)
(***************************************************************************)
\* resolveActiveMatchId returned and its object holds no match id.
ResolverGaveNoId == req.match_id = "" /\ resolvedMatch.kind # "none" /\ resolvedMatch.match_id = ""

\* The handler goes on after a resolver that closed without giving an id: it
\* calls runWinProbability without a match id, which spawns the computation
\* (or throws its own 500 when the script directory is gone).
GoesOnWithoutMatchId ==
    (/\ phase = "resolve" /\ phase' # "resolve"
     /\ child.promise = "resolved"
     /\ resolveActiveMatchId(Resolved(child)).match_id = "") =>
        \/ /\ phase' = "winprob"
           /\ child'.args = WinProbArgs("")
           /\ spawns'.win_probability = 1
           /\ response' = NoResponse
        \/ phase' = "done" /\ response'.status = 500

\* The answer of such a request is the computation's own.
AnswerIsTheComputations ==
    (phase = "winprob" /\ phase' = "done" /\ ResolverGaveNoId) =>
        /\ child.args = WinProbArgs("")
        /\ response'.status # 200 =>
              response' = CatchResponse(ResultOf(child))
        /\ response'.status = 200 <=> ~ResultOf(child).threw

\* C34: in a /win-probability request without match_id, when the resolver gives
\* no match id (no active match, timeout, exit code not 0, payload missing) the
\* computation is still invoked, without --match-id, and the failure of the
\* resolver alone never makes the answer an error: the answer is what the
\* computation gives.
C34_ComputationWithoutMatchId ==
    /\ [](phase = "done" /\ ResolverGaveNoId /\ response.status # 500 =>
             spawns.win_probability = 1 /\ child.args = WinProbArgs(""))
    /\ [][GoesOnWithoutMatchId]_vars
    /\ [][AnswerIsTheComputations]_vars

\* C34 happens: the resolver timed out, and the request is answered 200 with
\* the payload of a computation invoked without --match-id.
C34_Witness ==
    /\ phase = "done"
    /\ ResolverGaveNoId
    /\ resolvedMatch.error = "Timeout resolve match"
    /\ spawns = [resolve_match |-> 1, win_probability |-> 1]
    /\ child.args = WinProbArgs("")
    /\ response.status = 200

(***************************************************************************)
(* Property of a request that names its match.                             *)
(***************************************************************************)
\* A /win-probability request past the checks of method and nickname.
Handled == phase # "idle" /\ req.method = "GET" /\ req.nickname # ""

\* The match id a query gives once trimmed: match_id when it is written at
\* all, matchId otherwise.
GivenMatchId(query) ==
    LET written == IF query.match_id # "" THEN query.match_id ELSE query.matchId
    IN  IF written = " " THEN "" ELSE written

\* The request went without the resolver, the computation got the id, and
\* the success response has no auto_match_resolve.
WentWithout(id) ==
    /\ spawns.resolve_match = 0
    /\ resolvedMatch.kind = "none"
    /\ spawns.win_probability = 1 => child.args = WinProbArgs(id)
    /\ response.status = 200 => ~response.auto_match_resolve.present

\* C35 as stated: with a non-empty match_id (or matchId) parameter the
\* resolver is never invoked, the given id is passed as --match-id and the
\* success response carries no auto_match_resolve.
C35_GivenMatchIdAsStated ==
    (Handled /\ (req.query.match_id # "" \/ req.query.matchId # "")) =>
        WentWithout(OrElse(req.query.match_id, req.query.matchId))

\* C35: when the match id the query gives (match_id, or matchId when match_id
\* is absent or empty) is non-empty after trimming, the resolver is never
\* invoked, that id is the one passed to the computation as --match-id, and
\* the success response carries no auto_match_resolve field.
C35_GivenMatchIdSkipsResolver ==
    (Handled /\ GivenMatchId(req.query) # "") => WentWithout(GivenMatchId(req.query))

\* C35 happens: a request naming m1 in match_id and m2 in matchId is answered
\* 200 by a computation run with --match-id m1, the resolver never spawned.
C35_Witness ==
    /\ phase = "done"
    /\ req.query = [match_id |-> "m1", matchId |-> "m2"]
    /\ spawns = [resolve_match |-> 0, win_probability |-> 1]
    /\ child.args = WinProbArgs("m1")
    /\ response.status = 200
    /\ ~response.auto_match_resolve.present

(***************************************************************************)
(* Property of the origin of the upstream requests of /proxy.              *)
(***************************************************************************)
\* C36: every upstream request of the /proxy route, and so every request that
\* carries a service API key, goes to the origin of SERVICE_BASE[service], for
\* every accepted path parameter (any string that starts with "/").
C36_UpstreamOnServiceOrigin ==
    Forwarded => fwd.upstream.url.origin = Origin(SERVICE_BASE(fwd.request.service))

(***************************************************************************)
(* Property of the two flags of the win probability sections.              *)
(***************************************************************************)
\* A /win-probability request of loadAllData is out or was answered.
WinProbabilityRequested == load.st = "fetching" \/ load.answer # NoAnswer

\* C37: with CONFIG.WINPROB_ENABLED false no win-probability and no
\* live-win-probability request is ever issued and the live timer is never
\* started; with only CONFIG.LIVE_WINPROB_ENABLED false no
\* live-win-probability request is ever issued.
C37_DisabledSectionsAskNothing ==
    /\ ~CONFIG.WINPROB_ENABLED =>
           ~WinProbabilityRequested /\ liveReqs = <<>> /\ ~liveWinprobTimer
    /\ ~CONFIG.LIVE_WINPROB_ENABLED => liveReqs = <<>>

\* C37 happens: with WINPROB_ENABLED false (and the live flag set) the widget
\* is initialised, its refresh timer runs, and a refresh is past its fetches
\* with nothing asked of /win-probability.
C37_Witness ==
    /\ ~CONFIG.WINPROB_ENABLED
    /\ CONFIG.LIVE_WINPROB_ENABLED
    /\ inited = "yes"
    /\ refreshTimer
    /\ load.st = "settled"
    /\ load.answer = NoAnswer

(***************************************************************************)
(* Property of the exit code of a child that a signal ended.               *)
(***************************************************************************)
\* The promise resolved on the 'close' of a child ended by a signal that was
\* not the kill of the timeout.
ClosedBySignal ==
    /\ child.st = "closed" /\ child.promise = "resolved"
    /\ child.closedWith = NullCode
    /\ ~child.timedOut

\* Such a child with no payload in its stdout is answered as a missing
\* payload, code 0.
SignalledIsPayloadMissing ==
    ClosedBySignal =>
        /\ (phase = "winprob" /\ phase' = "done"
              /\ parseMarkedPayload(child.stdout, WINPROB_MARKER) = Null) =>
              response' = ErrorResponse(502, "false",
                              "Reponse JSON win probability introuvable dans stdout.", 0,
                              DetailOrUndefined(TextDetail("stdout", child.stdout)))
        /\ (phase = "resolve" /\ phase' # "resolve"
              /\ parseMarkedPayload(child.stdout, MATCH_RESOLVE_MARKER) = Null) =>
              resolvedMatch' = [kind |-> "failure", ok |-> FALSE, match_id |-> "",
                                error |-> "Resolve match payload introuvable.",
                                exit |-> 0]

\* C38: the code spawnProcess resolves with is the numeric exit code of the
\* child, and 0 when the child closed without one (ended by a signal that was
\* not the kill of the timeout); such an invocation without a marker is
\* classified as a missing payload, not as an invocation failure.
C38_SignalledChildReportsZero ==
    /\ [](child.st = "closed" /\ child.promise = "resolved" =>
             child.code = IF child.closedWith = NullCode THEN 0 ELSE child.closedWith)
    /\ [][SignalledIsPayloadMissing]_vars

\* C38 happens: the computation was ended by a signal before its timeout,
\* having written a log line only, and the request is answered 502 with the
\* missing-payload error.
C38_Witness ==
    /\ phase = "done"
    /\ child.args.script = "win_probability"
    /\ ClosedBySignal
    /\ child.code = 0
    /\ child.stdout = <<LogLine>>
    /\ response.status = 502
    /\ response.error = "Reponse JSON win probability introuvable dans stdout."

(***************************************************************************)
(* Property of the routes the widget asks of the proxy.                    *)
(***************************************************************************)
\* C39: every route the widget requests from the proxy (proxy,
\* resolve-live-match, win-probability, live-win-probability) is handled by a
\* dedicated branch of the proxy's request handler; none is answered by the
\* unknown-route 404 (and no live tick is left with "Live indisponible" by
\* it).
C39_EveryRouteHandled ==
    \A i \in 1..Len(net.handled) :
        /\ net.handled[i].branch = net.handled[i].route
        /\ net.handled[i].liveMeta # "Live indisponible"
====
